---------------------------- MODULE Spec2Model ----------------------------
(***************************************************************************)
(* A model of the ESMON build and install pipelines                        *)
(* (pyesmon/esmon_build.py, pyesmon/esmon_install.py).                     *)
(*                                                                         *)
(* The program is sequential.  Every call on a host (sh_run, sh_send_file, *)
(* sh_get_file, sh_sha256sum, ...) is one step of the model: the step      *)
(* appends the command to `log`, draws the command's outcome from the      *)
(* outcomes the host can give, and moves `pc` to the statement that the    *)
(* code reaches with that outcome.  A command that exits non-zero has no   *)
(* effect on the file system.  Function calls push the statement to        *)
(* return to on `stack`; `rv` holds the value of the last return.          *)
(***************************************************************************)
EXTENDS Integers, Sequences, FiniteSets, TLC

(***************************************************************************)
(* Bounds of the model.                                                    *)
(***************************************************************************)
\* number of distinct file checksums
NumSums == 2
\* number of file names in a cache directory that no package owns
NumStray == 1
\* largest number of files a cache directory holds initially
MaxInitFiles == 2
\* largest number of expected RPMs missing from a collectd cache directory
\* that holds RPMs of the distro
MaxMissing == 1
\* largest number of invocations of collectd_build_check in a row
MaxCalls == 2
\* largest number of entries of ssh_hosts in a config
MaxHosts == 2
\* largest len(sys.argv)
MaxArgv == 3

(***************************************************************************)
(* Program constants.                                                      *)
(***************************************************************************)
DISTRO_RHEL6 == "rhel6"
DISTRO_RHEL7 == "rhel7"
\* a distribution identifier that is neither of the two recognized values
DISTRO_OTHER == "rhel8"
Distros == {DISTRO_RHEL6, DISTRO_RHEL7, DISTRO_OTHER}

ESMON_CLIENT_DEPENDENT_RPMS == <<"rsync", "yajl">>
ESMON_SERVER_DEPENDENT_RPMS == <<"yajl", "fontconfig">>
ESMON_INSTALL_DEPENDENT_RPMS == <<"rsync", "PyYAML">>
\* the packages of the python libraries main of esmon_install imports, in
\* the order of the imports
PYTHON_LIBS ==
    <<"PyYAML", "python-requests", "python2-filelock", "python-slugify",
      "python-dateutil">>

\* the value None where a checksum is expected
NoSum == 0
Sums == 1..NumSums

Range(s) == {s[i] : i \in 1..Len(s)}

\* list.remove(x): the first occurrence of x leaves the list
RECURSIVE ListRemove(_, _)
ListRemove(s, x) ==
    IF s = <<>> THEN <<>>
    ELSE IF Head(s) = x THEN Tail(s)
    ELSE <<Head(s)>> \o ListRemove(Tail(s), x)

\* (the lists joined without the test `not in dependent_rpms`)
AppendMissing_All(dst, src) == dst \o src

\* for x in src: if x not in dst: dst.append(x)
RECURSIVE AppendMissing(_, _)
AppendMissing(dst, src) ==
    IF src = <<>> THEN dst
    ELSE AppendMissing(IF Head(src) \in Range(dst) THEN dst
                       ELSE Append(dst, Head(src)), Tail(src))

AllPkgs == Range(ESMON_CLIENT_DEPENDENT_RPMS)
           \cup Range(ESMON_SERVER_DEPENDENT_RPMS)
           \cup Range(ESMON_INSTALL_DEPENDENT_RPMS)

(***************************************************************************)
(* The build host's package database.                                      *)
(***************************************************************************)
\* the single full name `rpm -q <name>` prints for an installed package
RpmFullName(name) == name \o "-1.0-1.el7.x86_64"
\* the checksum the yum database records for an installed package
YumdbSha256(fullname) ==
    IF fullname \in {RpmFullName("rsync"), RpmFullName("fontconfig")}
    THEN 1 ELSE NumSums
\* rpm_filename = rpm_fullname + ".rpm"
RpmFilename(fullname) == fullname \o ".rpm"

StrayName(i) == "stale-" \o ToString(i) \o ".rpm"
StrayNames == {StrayName(i) : i \in 1..NumStray}
\* the file names a dependent directory can hold, in the order ls prints them
DepFileOrder ==
    <<RpmFilename(RpmFullName("PyYAML")), RpmFilename(RpmFullName("fontconfig")),
      RpmFilename(RpmFullName("rsync")), RpmFilename(RpmFullName("yajl"))>>
    \o [i \in 1..NumStray |-> StrayName(i)]
DepFileNames == Range(DepFileOrder)

VARIABLES
    entry,      \* the function the run started in
    pc,         \* the statement the program is at
    stack,      \* the statements to return to, innermost first
    rv,         \* the value of the last return
    log,        \* the commands issued so far, in order
    distro,     \* the distro argument of the running build function
    build_host, \* the build_host / host argument
    depdir,     \* dependent_dir on the host: file name -> checksum, NoSum: absent
    depdir0,    \* dependent_dir as it was when download_dependent_rpms started
    existing_rpm_fnames,
    dependent_rpms,
    dl_i,       \* position of the for loop over dependent_rpms
    dl_j,       \* position of the final for loop over existing_rpm_fnames
    rpm_fullname,
    sha256sum,
    collectd_dir,   \* the files in local_collectd_rpm_dir (RPMS/<distro>/collectd)
    collectd_dir0,  \* collectd_dir when the running collectd_build_check started
    copying_dir,    \* the files in local_collectd_rpm_copying_dir (RPMS/<distro>/x86_64)
    host_rpm_dir,   \* the files in host_collectd_rpm_dir on the build host
    rpm_collectd_fnames,
    cbc_k,          \* position of the for loop that prunes rpm_collectd_fnames
    calls,          \* how many times the entry function was invoked
    prev_ok,        \* the previous invocation found every RPM cached and returned 0
    log0,           \* the length of log when the running invocation started
    installed,      \* the packages installed on the local host
    iso_files,      \* the files in RPMS/rhel7/dependent of the ISO
    iso_path,       \* iso_path of dependency_install; "" is None
    mounted,        \* the ISO is mounted on mnt_path
    mnt_dir,        \* the directory mnt_path exists
    eis_rpm_dependent_fnames,   \* of the EsmonInstallServer; <<"None">> is None
    ddi_i,          \* position of the for loop of dependency_do_install
    di_ret,         \* ret of dependency_install
    importable,     \* the python libraries that main of esmon_install can import
    missing_dependencies,
    im_i,           \* position of the for loop of main of esmon_install
    delegated,      \* esmon_install_nodeps.main() was called
    host_distro,    \* what sh_distro() of each host reports
    host_rpms,      \* of each host: which of the packages host_build removes
                    \* are installed
    local_dep_kind, \* local_dependent_rpm_dir is absent, a file or a directory
    local_dep,      \* the files in local_dependent_rpm_dir when it is a directory
    copying_dep,    \* the files in local_copying_dependent_rpm_dir
    dependent_rpm_cached,
    argv_len,       \* len(sys.argv)
    log_dir,        \* local_log_dir is absent, a file or a directory
    workspace_dir,  \* local_workspace is absent, a file or a directory
    config_file,    \* the file at config_fpath: absent, unreadable, garbage or yaml
    config,         \* what yaml.load gives for the file; the config of the build
    centos6_host,   \* of esmon_do_build; "None" is None
    cache_root,     \* the entries of iso_cached_dir
    cache_root0,    \* cache_root when the program started
    server_dir,     \* the entries of local_server_rpm_dir (RPMS/rhel7/server)
    server_dir0,    \* server_dir when the program started
    rpm_dir_other,  \* the RPMS/<distro> tree of the distro that is not being built
    existing_files, \* server_existing_files, then dependent_existing_files
    edb_i,          \* position of the running for loop of esmon_do_build
    gp_f,           \* position of the for loop over GRAFANA_PLUGIN_FILENAMES
    main_ret,       \* ret of main: <<>> before the assignment, then <<value>>
    status          \* the exit status of the process once it has exited

ctl == <<pc, stack, rv, log>>
args == <<entry, distro, build_host>>
dlVars == <<depdir, depdir0, existing_rpm_fnames, dependent_rpms, dl_i, dl_j,
            rpm_fullname, sha256sum>>
cbVars == <<collectd_dir, collectd_dir0, copying_dir, host_rpm_dir,
            rpm_collectd_fnames, cbc_k>>
runVars == <<calls, prev_ok, log0>>
imVars == <<importable, missing_dependencies, im_i, delegated>>
instVars == <<installed, iso_files, iso_path, mounted, mnt_dir,
              eis_rpm_dependent_fnames, ddi_i, di_ret, imVars>>
hbVars == <<host_distro, host_rpms, local_dep_kind, local_dep, copying_dep,
            dependent_rpm_cached>>
mainVars == <<argv_len, log_dir, workspace_dir, config_file, config, main_ret,
              status>>
edbVars == <<centos6_host, cache_root, cache_root0, server_dir, server_dir0,
             rpm_dir_other, existing_files, edb_i, gp_f>>
vars == <<ctl, args, dlVars, cbVars, runVars, instVars, hbVars, mainVars,
          edbVars>>
\* what download_dependent_rpms leaves alone
notDl == <<cbVars, runVars, instVars, hbVars, mainVars, edbVars>>
\* what collectd_build and collectd_build_check leave alone
notCb == <<dlVars, runVars, instVars, hbVars, mainVars, edbVars>>
\* what the install pipeline leaves alone
notInst == <<args, dlVars, cbVars, runVars, hbVars, mainVars, edbVars, imVars>>
\* what host_build itself leaves alone
notHb == <<args, cbVars, runVars, instVars, mainVars, edbVars>>

\* a command or file transfer issued on a host
\* res is the exit status, or for a checksum query the checksum returned
Cmd(h, c, a, r) == [host |-> h, cmd |-> c, arg |-> a, res |-> r]
Issue(h, c, a, r) == log' = Append(log, Cmd(h, c, a, r))
\* the exit status of a command that succeeded (ok) or failed
Exit(ok) == IF ok THEN 0 ELSE 1

Goto(l) == pc' = l /\ UNCHANGED <<stack, rv>>
\* return v from the running function
Return(v) ==
    /\ rv' = v
    /\ IF stack = <<>>
       THEN pc' = "done" /\ stack' = stack
       ELSE pc' = Head(stack) /\ stack' = Tail(stack)

\* ls of a dependent directory: the names present, split on white space
LsDep(dir) == SelectSeq(DepFileOrder, LAMBDA f : dir[f] # NoSum)

(***************************************************************************)
(* download_dependent_rpms(host, dependent_dir, distro)                    *)
(***************************************************************************)
\* the list of required packages for a distro
DependentRpmsFor(d) ==
    IF d = DISTRO_RHEL7
    THEN AppendMissing(AppendMissing(ESMON_CLIENT_DEPENDENT_RPMS,
                                     ESMON_SERVER_DEPENDENT_RPMS),
                       ESMON_INSTALL_DEPENDENT_RPMS)
    ELSE ESMON_CLIENT_DEPENDENT_RPMS

dl_yumdb_sync ==
    /\ pc = "dl_yumdb_sync"
    /\ depdir0' = depdir
    /\ \E ok \in BOOLEAN :
         /\ Issue(build_host, "yumdb sync", "", Exit(ok))
         /\ IF ok THEN Goto("dl_ls") ELSE Return(-1)
    /\ UNCHANGED <<args, notDl, depdir, existing_rpm_fnames, dependent_rpms, dl_i,
                   dl_j, rpm_fullname, sha256sum>>

dl_ls ==
    /\ pc = "dl_ls"
    /\ \E ok \in BOOLEAN :
         /\ Issue(build_host, "ls", "dependent_dir", Exit(ok))
         /\ IF ok
            THEN /\ existing_rpm_fnames' = LsDep(depdir)
                 /\ dependent_rpms' = DependentRpmsFor(distro)
                 /\ Goto("dl_yum_install")
            ELSE /\ Return(-1)
                 /\ UNCHANGED <<existing_rpm_fnames, dependent_rpms>>
    /\ UNCHANGED <<args, notDl, depdir, depdir0, dl_i, dl_j, rpm_fullname, sha256sum>>

dl_yum_install ==
    /\ pc = "dl_yum_install"
    /\ \E ok \in BOOLEAN :
         /\ Issue(build_host, "yum install -y", "dependent_rpms", Exit(ok))
         /\ IF ok THEN Goto("dl_for_rpm") /\ dl_i' = 1
            ELSE Return(-1) /\ UNCHANGED dl_i
    /\ UNCHANGED <<args, notDl, depdir, depdir0, existing_rpm_fnames, dependent_rpms,
                   dl_j, rpm_fullname, sha256sum>>

\* what sh_sha256sum(fpath) can return: the file's checksum, or None when the
\* command fails or the file is missing
Sha256sumOutcomes(dir, f) == {dir[f], NoSum}

\* the file name the package at hand is expected under
rpm_filename == RpmFilename(rpm_fullname)

\* for rpm_name in dependent_rpms: rpm -q
dl_rpm_q ==
    /\ pc = "dl_for_rpm"
    /\ dl_i <= Len(dependent_rpms)
    /\ \E out \in {"fail", "one", "many"} :
         /\ Issue(build_host, "rpm -q", dependent_rpms[dl_i],
                  Exit(out # "fail"))
         /\ IF out = "one"
            THEN /\ rpm_fullname' = RpmFullName(dependent_rpms[dl_i])
                 /\ Goto("dl_yumdb_sha256")
            ELSE Return(-1) /\ UNCHANGED rpm_fullname
    /\ UNCHANGED <<args, notDl, depdir, depdir0, existing_rpm_fnames, dependent_rpms,
                   dl_i, dl_j, sha256sum>>

\* sha256sum = host.sh_yumdb_sha256(rpm_fullname), then the search of
\* existing_rpm_fnames for rpm_filename
dl_yumdb_sha256 ==
    /\ pc = "dl_yumdb_sha256"
    /\ \E s \in {YumdbSha256(rpm_fullname), NoSum} :
         /\ Issue(build_host, "yumdb sha256", rpm_fullname, s)
         /\ IF s = NoSum
            THEN Return(-1) /\ UNCHANGED sha256sum
            ELSE /\ sha256sum' = s
                 /\ IF rpm_filename \in Range(existing_rpm_fnames)
                    THEN Goto("dl_file_sha256sum")
                    ELSE Goto("dl_yumdownloader")
    /\ UNCHANGED <<args, notDl, depdir, depdir0, existing_rpm_fnames, dependent_rpms,
                   dl_i, dl_j, rpm_fullname>>

\* file_sha256sum = host.sh_sha256sum(fpath) of the file found in the listing
dl_file_sha256sum ==
    /\ pc = "dl_file_sha256sum"
    /\ \E file_sha256sum \in Sha256sumOutcomes(depdir, rpm_filename) :
         /\ Issue(build_host, "sha256sum", rpm_filename, file_sha256sum)
         /\ IF sha256sum # file_sha256sum
            THEN /\ Goto("dl_remove_wrong")
                 /\ UNCHANGED <<existing_rpm_fnames, dl_i>>
            ELSE /\ existing_rpm_fnames' =
                        ListRemove(existing_rpm_fnames, rpm_filename)
                 /\ dl_i' = dl_i + 1
                 /\ Goto("dl_for_rpm")
    /\ UNCHANGED <<args, notDl, depdir, depdir0, dependent_rpms, dl_j, rpm_fullname,
                   sha256sum>>

\* ret = host.sh_remove_file(fpath) of the file with the wrong checksum; the
\* name stays in existing_rpm_fnames
dl_remove_wrong ==
    /\ pc = "dl_remove_wrong"
    /\ \E ok \in BOOLEAN :
         /\ Issue(build_host, "rm", rpm_filename, Exit(ok))
         /\ IF ok
            THEN /\ depdir' = [depdir EXCEPT ![rpm_filename] = NoSum]
                 /\ Goto("dl_yumdownloader")
            ELSE Return(-1) /\ UNCHANGED depdir
    /\ UNCHANGED <<args, notDl, depdir0, existing_rpm_fnames, dependent_rpms, dl_i,
                   dl_j, rpm_fullname, sha256sum>>

\* yumdownloader: on success a package file is written, under the expected
\* name or under another one, with any content
dl_yumdownloader ==
    /\ pc = "dl_yumdownloader"
    /\ \E ok \in BOOLEAN :
         /\ Issue(build_host, "yumdownloader", dependent_rpms[dl_i], Exit(ok))
         /\ IF ok
            THEN /\ \E f \in {rpm_filename, StrayName(1)}, s \in Sums :
                      depdir' = [depdir EXCEPT ![f] = s]
                 /\ Goto("dl_check_again")
            ELSE Return(-1) /\ UNCHANGED depdir
    /\ UNCHANGED <<args, notDl, depdir0, existing_rpm_fnames, dependent_rpms, dl_i,
                   dl_j, rpm_fullname, sha256sum>>

\* download_dependent_rpms downloading again after a wrong checksum
dl_check_again_Retry ==
    /\ pc = "dl_check_again"
    /\ \E file_sha256sum \in Sha256sumOutcomes(depdir, rpm_filename) :
         /\ Issue(build_host, "sha256sum", rpm_filename, file_sha256sum)
         /\ IF sha256sum # file_sha256sum
            THEN Goto("dl_yumdownloader") /\ UNCHANGED dl_i
            ELSE dl_i' = dl_i + 1 /\ Goto("dl_for_rpm")
    /\ UNCHANGED <<args, notDl, depdir, depdir0, existing_rpm_fnames, dependent_rpms,
                   dl_j, rpm_fullname, sha256sum>>

\* Don't trust yumdownloader, check again
dl_check_again ==
    /\ pc = "dl_check_again"
    /\ \E file_sha256sum \in Sha256sumOutcomes(depdir, rpm_filename) :
         /\ Issue(build_host, "sha256sum", rpm_filename, file_sha256sum)
         /\ IF sha256sum # file_sha256sum
            THEN Return(-1) /\ UNCHANGED dl_i
            ELSE dl_i' = dl_i + 1 /\ Goto("dl_for_rpm")
    /\ UNCHANGED <<args, notDl, depdir, depdir0, existing_rpm_fnames, dependent_rpms,
                   dl_j, rpm_fullname, sha256sum>>

\* the for loop over dependent_rpms is over
dl_for_rpm_end ==
    /\ pc = "dl_for_rpm"
    /\ dl_i > Len(dependent_rpms)
    /\ dl_j' = 1
    /\ Goto("dl_for_fname")
    /\ UNCHANGED <<log, args, notDl, depdir, depdir0, existing_rpm_fnames,
                   dependent_rpms, dl_i, rpm_fullname, sha256sum>>

\* for fname in existing_rpm_fnames: host.sh_remove_file(fpath)
dl_remove_unnecessary ==
    /\ pc = "dl_for_fname"
    /\ dl_j <= Len(existing_rpm_fnames)
    /\ \E ok \in BOOLEAN :
         /\ Issue(build_host, "rm", existing_rpm_fnames[dl_j], Exit(ok))
         /\ IF ok
            THEN /\ depdir' = [depdir EXCEPT ![existing_rpm_fnames[dl_j]] = NoSum]
                 /\ dl_j' = dl_j + 1
                 /\ Goto("dl_for_fname")
            ELSE Return(-1) /\ UNCHANGED <<depdir, dl_j>>
    /\ UNCHANGED <<args, notDl, depdir0, existing_rpm_fnames, dependent_rpms, dl_i,
                   rpm_fullname, sha256sum>>

dl_return_0 ==
    /\ pc = "dl_for_fname"
    /\ dl_j > Len(existing_rpm_fnames)
    /\ Return(0)
    /\ UNCHANGED <<log, args, dlVars, notDl>>

download_dependent_rpms ==
    \/ dl_yumdb_sync \/ dl_ls \/ dl_yum_install \/ dl_rpm_q
    \/ dl_yumdb_sha256 \/ dl_file_sha256sum \/ dl_remove_wrong
    \/ dl_yumdownloader \/ dl_check_again \/ dl_for_rpm_end
    \/ dl_remove_unnecessary \/ dl_return_0

(***************************************************************************)
(* collectd_build_check and collectd_build                                 *)
(***************************************************************************)
COLLECTD_RPM_NAMES ==
    <<"collectd", "collectd-disk", "collectd-filedata", "collectd-ime",
      "collectd-sensors", "collectd-ssh", "libcollectdclient">>
\* the sub-package names a file name can carry after "collectd-"
CollectdSubNames == {"disk", "filedata", "ime", "sensors", "ssh", "utils"}
\* what can follow a name that the pattern matched (re.match anchors the
\* start of the name only)
NameTails == {"", ".bak"}

\* the collectd_version_release of the checkout, and the one of an older build
collectd_version_release == "5.7.2.g51e7e0d-1"
OldVersionRelease == "5.7.1.g0c2ba1a-1"

\* distro_number; "" when the distro is neither RHEL6 nor RHEL7
DistroNumber(d) ==
    IF d = DISTRO_RHEL6 THEN "6" ELSE IF d = DISTRO_RHEL7 THEN "7" ELSE ""

\* "%s-%s.el%s.x86_64.rpm" % (collect_rpm_name, version_release, distro_number)
CollectRpmFull(name, vr, n) == name \o "-" \o vr \o ".el" \o n \o ".x86_64.rpm"

\* re.compile(r"collectd-\S+-%s.el%s.x86_64.rpm" % (vr, n)).match(fname)
CollectRpmMatch(fname, vr, n) ==
    \E sub \in CollectdSubNames, tail \in NameTails :
        fname = "collectd-" \o sub \o "-" \o vr \o ".el" \o n
                \o ".x86_64.rpm" \o tail

\* the expected RPM files of a distro
ExpectedRpms(d) ==
    {CollectRpmFull(COLLECTD_RPM_NAMES[i], collectd_version_release,
                    DistroNumber(d)) : i \in 1..Len(COLLECTD_RPM_NAMES)}

\* file names of the collectd cache directory that are no expected RPM
CollectdStrayOrder ==
    <<CollectRpmFull("collectd-utils", collectd_version_release, "7") \o ".bak",
      CollectRpmFull("collectd-disk", OldVersionRelease, "7"),
      CollectRpmFull("libcollectdclient-devel", collectd_version_release, "7")>>
\* the file names a collectd cache directory can hold, in the order ls prints
CollectdFileOrder ==
    [i \in 1..Len(COLLECTD_RPM_NAMES) |->
        CollectRpmFull(COLLECTD_RPM_NAMES[i], collectd_version_release, "6")]
    \o [i \in 1..Len(COLLECTD_RPM_NAMES) |->
        CollectRpmFull(COLLECTD_RPM_NAMES[i], collectd_version_release, "7")]
    \o CollectdStrayOrder
LsCollectd(dir) == SelectSeq(CollectdFileOrder, LAMBDA f : f \in dir)

\* The search loops of collectd_build_check: every expected name found in
\* fnames is removed from it; the search stops at the first name not found.
\* Gives <<found, fnames>>.
RECURSIVE CheckRpms(_, _, _)
CheckRpms(names, fnames, d) ==
    IF names = <<>> THEN <<TRUE, fnames>>
    ELSE LET full == CollectRpmFull(Head(names), collectd_version_release,
                                    DistroNumber(d))
         IN  IF full \in Range(fnames)
             THEN CheckRpms(Tail(names), ListRemove(fnames, full), d)
             ELSE <<FALSE, fnames>>
\* (found as the last search leaves it, with no break at a name not found)
FoundAll_LastOnly(names, fnames, d) ==
    CollectRpmFull(names[Len(names)], collectd_version_release, DistroNumber(d))
        \in Range(fnames)
\* found is False before the loop and stays so when there is no name
FoundAll(names, fnames, d) == names # <<>> /\ CheckRpms(names, fnames, d)[1]

\* call a function: run it from its first statement, return to statement l
Call(first, l) == pc' = first /\ stack' = <<l>> \o stack /\ UNCHANGED rv

\* mkdir -p && ls of local_collectd_rpm_dir, the distro check and the search
cbc_ls ==
    /\ pc = "cbc_ls"
    /\ collectd_dir0' = collectd_dir
    /\ cbc_k' = 1
    /\ \E ok \in BOOLEAN :
         /\ Issue("localhost", "mkdir -p && ls", "local_collectd_rpm_dir", Exit(ok))
         /\ IF ~ok
            THEN Return(-1) /\ UNCHANGED rpm_collectd_fnames
            ELSE IF DistroNumber(distro) = ""
            THEN /\ Return(-1)
                 /\ rpm_collectd_fnames' = LsCollectd(collectd_dir)
            ELSE LET fnames == LsCollectd(collectd_dir)
                 IN  IF FoundAll(COLLECTD_RPM_NAMES, fnames, distro)
                     THEN /\ rpm_collectd_fnames' =
                                CheckRpms(COLLECTD_RPM_NAMES, fnames, distro)[2]
                          /\ Goto("cbc_prune")
                     ELSE /\ rpm_collectd_fnames' =
                                CheckRpms(COLLECTD_RPM_NAMES, fnames, distro)[2]
                          /\ Call("cb_send_file", "cbc_built")
    /\ UNCHANGED <<args, notCb, collectd_dir, copying_dir, host_rpm_dir>>

\* ret = collectd_build(...) has returned
cbc_built ==
    /\ pc = "cbc_built"
    /\ IF rv # 0 THEN Return(-1) ELSE Goto("cbc_ls_again")
    /\ UNCHANGED <<log, args, notCb, cbVars>>

\* (a build that is trusted: the second search is not done)
RpmsFoundAgain_Trusted(fnames) == TRUE
\* the second search, after the build: every expected name is in the listing
RpmsFoundAgain(fnames) == CheckRpms(COLLECTD_RPM_NAMES, fnames, distro)[1]

\* Don't trust the build, check RPMs again
cbc_ls_again ==
    /\ pc = "cbc_ls_again"
    /\ \E ok \in BOOLEAN :
         /\ Issue("localhost", "ls", "local_collectd_rpm_dir", Exit(ok))
         /\ IF ~ok
            THEN Return(-1) /\ UNCHANGED rpm_collectd_fnames
            ELSE LET fnames == LsCollectd(collectd_dir)
                 IN  /\ rpm_collectd_fnames' =
                            CheckRpms(COLLECTD_RPM_NAMES, fnames, distro)[2]
                     /\ IF RpmsFoundAgain(fnames) THEN Return(0) ELSE Return(-1)
    /\ UNCHANGED <<args, notCb, collectd_dir, collectd_dir0, copying_dir,
                   host_rpm_dir, cbc_k>>

\* the file the pruning loop is at
PruneFile == rpm_collectd_fnames[cbc_k]

\* (the test of the pruning loop inverted: `if match`)
Unmatched_Inverted(fname) ==
    CollectRpmMatch(fname, collectd_version_release, DistroNumber(distro))
\* `if not match`: the file name does not match the pattern of the RPMs
Unmatched(fname) ==
    ~CollectRpmMatch(fname, collectd_version_release, DistroNumber(distro))

\* a file that does not match the pattern is removed with rm -f
cbc_prune_rm ==
    /\ pc = "cbc_prune"
    /\ cbc_k <= Len(rpm_collectd_fnames)
    /\ Unmatched(PruneFile)
    /\ \E ok \in BOOLEAN :
         /\ Issue("localhost", "rm -f", PruneFile, Exit(ok))
         /\ IF ok
            THEN /\ collectd_dir' = collectd_dir \ {PruneFile}
                 /\ cbc_k' = cbc_k + 1
                 /\ Goto("cbc_prune")
            ELSE Return(-1) /\ UNCHANGED <<collectd_dir, cbc_k>>
    /\ UNCHANGED <<args, notCb, collectd_dir0, copying_dir, host_rpm_dir,
                   rpm_collectd_fnames>>

\* a file that matches the pattern is kept
cbc_prune_keep ==
    /\ pc = "cbc_prune"
    /\ cbc_k <= Len(rpm_collectd_fnames)
    /\ ~Unmatched(PruneFile)
    /\ cbc_k' = cbc_k + 1
    /\ Goto("cbc_prune")
    /\ UNCHANGED <<log, args, notCb, collectd_dir, collectd_dir0, copying_dir,
                   host_rpm_dir, rpm_collectd_fnames>>

cbc_return_0 ==
    /\ pc = "cbc_prune"
    /\ cbc_k > Len(rpm_collectd_fnames)
    /\ Return(0)
    /\ UNCHANGED <<log, args, notCb, cbVars>>

collectd_build_check ==
    \/ cbc_ls \/ cbc_built \/ cbc_ls_again \/ cbc_prune_rm \/ cbc_prune_keep
    \/ cbc_return_0

\* the RPMs a successful rpmbuild can leave in host_collectd_rpm_dir: the
\* expected ones, the expected ones and one more, all but the first or all
\* but the last of them, or none
BuildOutputs(d) ==
    LET first == CollectRpmFull(COLLECTD_RPM_NAMES[1],
                                collectd_version_release, DistroNumber(d))
        last == CollectRpmFull(COLLECTD_RPM_NAMES[Len(COLLECTD_RPM_NAMES)],
                               collectd_version_release, DistroNumber(d))
    IN  {ExpectedRpms(d), ExpectedRpms(d) \cup {CollectdStrayOrder[3]},
         ExpectedRpms(d) \ {first}, ExpectedRpms(d) \ {last}, {}}

\* the distro check and build_host.sh_send_file(collectd_git_path, workspace)
cb_send_file ==
    /\ pc = "cb_send_file"
    /\ IF DistroNumber(distro) = ""
       THEN Return(-1) /\ UNCHANGED log
       ELSE \E ok \in BOOLEAN :
              /\ Issue(build_host, "send_file", "collectd_git_path", Exit(ok))
              /\ IF ok THEN Goto("cb_make_dist") ELSE Return(-1)
    /\ UNCHANGED <<args, notCb, cbVars>>

\* a step of collectd_build that is one command without an effect on the
\* directories of the model
CbCommand(here, h, c, a, next) ==
    /\ pc = here
    /\ \E ok \in BOOLEAN :
         /\ Issue(h, c, a, Exit(ok))
         /\ IF ok THEN Goto(next) ELSE Return(-1)
    /\ UNCHANGED <<args, notCb, cbVars>>

cb_make_dist ==
    CbCommand("cb_make_dist", build_host, "build.sh && configure && make dist-bzip2",
              "host_collectd_git_dir", "cb_ls_tarball")

\* ls collectd-*.tar.bz2: the command fails, or prints one name or several
cb_ls_tarball ==
    /\ pc = "cb_ls_tarball"
    /\ \E out \in {"fail", "one", "many"} :
         /\ Issue(build_host, "ls collectd-*.tar.bz2", "host_collectd_git_dir",
                  Exit(out # "fail"))
         /\ IF out = "one" THEN Goto("cb_rename") ELSE Return(-1)
    /\ UNCHANGED <<args, notCb, cbVars>>

cb_rename ==
    CbCommand("cb_rename", build_host, "tar jxf && mv && tar cjf",
              "collectd_tarball_name", "cb_stage")

cb_stage ==
    CbCommand("cb_stage", build_host, "mkdir {BUILD,RPMS,SOURCES,SRPMS} && mv",
              "collectd_tarball_name", "cb_rpmbuild")

\* collectd_build going on after a failed rpmbuild
cb_rpmbuild_Ignored ==
    /\ pc = "cb_rpmbuild"
    /\ \E ok \in BOOLEAN :
         /\ Issue(build_host, "rpmbuild -ba", DistroNumber(distro), Exit(ok))
         /\ host_rpm_dir' \in IF ok THEN BuildOutputs(distro) ELSE {{}}
         /\ Goto("cb_mkdir_local")
    /\ UNCHANGED <<args, notCb, collectd_dir, collectd_dir0, copying_dir,
                   rpm_collectd_fnames, cbc_k>>

cb_rpmbuild ==
    /\ pc = "cb_rpmbuild"
    /\ \E ok \in BOOLEAN :
         /\ Issue(build_host, "rpmbuild -ba", DistroNumber(distro), Exit(ok))
         /\ IF ok
            THEN /\ host_rpm_dir' \in BuildOutputs(distro)
                 /\ Goto("cb_mkdir_local")
            ELSE Return(-1) /\ UNCHANGED host_rpm_dir
    /\ UNCHANGED <<args, notCb, collectd_dir, collectd_dir0, copying_dir,
                   rpm_collectd_fnames, cbc_k>>

cb_mkdir_local ==
    CbCommand("cb_mkdir_local", "localhost", "mkdir -p", "local_distro_rpm_dir",
              "cb_rm_local")

\* rm local_collectd_rpm_dir -fr
cb_rm_local ==
    /\ pc = "cb_rm_local"
    /\ \E ok \in BOOLEAN :
         /\ Issue("localhost", "rm -fr", "local_collectd_rpm_dir", Exit(ok))
         /\ IF ok
            THEN collectd_dir' = {} /\ Goto("cb_get_file")
            ELSE Return(-1) /\ UNCHANGED collectd_dir
    /\ UNCHANGED <<args, notCb, collectd_dir0, copying_dir, host_rpm_dir,
                   rpm_collectd_fnames, cbc_k>>

\* build_host.sh_get_file(host_collectd_rpm_dir, local_distro_rpm_dir)
cb_get_file ==
    /\ pc = "cb_get_file"
    /\ \E ok \in BOOLEAN :
         /\ Issue(build_host, "get_file", "host_collectd_rpm_dir", Exit(ok))
         /\ IF ok
            THEN copying_dir' = host_rpm_dir /\ Goto("cb_mv")
            ELSE Return(-1) /\ UNCHANGED copying_dir
    /\ UNCHANGED <<args, notCb, collectd_dir, collectd_dir0, host_rpm_dir,
                   rpm_collectd_fnames, cbc_k>>

\* mv local_collectd_rpm_copying_dir local_collectd_rpm_dir
cb_mv ==
    /\ pc = "cb_mv"
    /\ \E ok \in BOOLEAN :
         /\ Issue("localhost", "mv", "local_collectd_rpm_copying_dir", Exit(ok))
         /\ IF ok
            THEN /\ collectd_dir' = copying_dir
                 /\ copying_dir' = {}
                 /\ Return(0)
            ELSE Return(-1) /\ UNCHANGED <<collectd_dir, copying_dir>>
    /\ UNCHANGED <<args, notCb, collectd_dir0, host_rpm_dir,
                   rpm_collectd_fnames, cbc_k>>

collectd_build ==
    \/ cb_send_file \/ cb_make_dist \/ cb_ls_tarball \/ cb_rename \/ cb_stage
    \/ cb_rpmbuild \/ cb_mkdir_local \/ cb_rm_local \/ cb_get_file \/ cb_mv

\* the contents a collectd cache directory can have before a run: nothing or
\* the RPMs of one distro but for at most MaxMissing of them, and any of the
\* other files
CollectdDirs ==
    LET strays == SUBSET Range(CollectdStrayOrder)
        lacking(d) == {ExpectedRpms(d) \ m :
                         m \in {x \in SUBSET ExpectedRpms(d) :
                                  Cardinality(x) <= MaxMissing}}
        bases == {{}} \cup lacking(DISTRO_RHEL6) \cup lacking(DISTRO_RHEL7)
    IN  {b \cup x : b \in bases, x \in strays}

InitCbLocals ==
    /\ collectd_dir0 = collectd_dir
    /\ copying_dir = {}
    /\ host_rpm_dir = {}
    /\ rpm_collectd_fnames = <<>>
    /\ cbc_k = 1

InitRun == calls = 1 /\ prev_ok = FALSE /\ log0 = 0

\* every expected RPM of the requested distro is in dir
AllCached(dir) == DistroNumber(distro) # "" /\ ExpectedRpms(distro) \subseteq dir

\* collectd_build_check is invoked again right after it returned 0
cbc_again ==
    /\ pc = "done"
    /\ entry = "collectd_build_check"
    /\ rv = 0
    /\ calls < MaxCalls
    /\ calls' = calls + 1
    /\ prev_ok' = (rv = 0 /\ AllCached(collectd_dir0))
    /\ log0' = Len(log)
    /\ collectd_dir0' = collectd_dir
    /\ pc' = "cbc_ls"
    /\ UNCHANGED <<stack, rv, log, args, dlVars, instVars, hbVars, mainVars,
                   edbVars, collectd_dir, copying_dir, host_rpm_dir,
                   rpm_collectd_fnames, cbc_k>>

(***************************************************************************)
(* esmon_install.py: dependency_install, dependency_do_install and         *)
(* EsmonInstallServer.eis_rpm_install                                      *)
(***************************************************************************)
\* the versions of a package an ISO can carry
IsoVersions == <<"1.0-1", "1.1-1">>
IsoRpmName(name, v) == name \o "-" \o v \o ".el7.x86_64.rpm"
\* re.compile(esmon_common.RPM_PATTERN_RHEL7 % name).match(filename)
RpmPatternMatch(name, filename) ==
    \E i \in 1..Len(IsoVersions) : filename = IsoRpmName(name, IsoVersions[i])
\* the file names the dependent directory of an ISO can hold, in the order
\* ls prints them
IsoFileOrder ==
    <<IsoRpmName("PyYAML", IsoVersions[1]), IsoRpmName("rsync", IsoVersions[1]),
      IsoRpmName("rsync", IsoVersions[2]), IsoRpmName("yajl", IsoVersions[1])>>
LsIso(files) == SelectSeq(IsoFileOrder, LAMBDA f : f \in files)

\* the value None of eis_rpm_dependent_fnames
NoFnames == <<"None">>

\* iso_path_in_config: the grep fails or prints no line or several lines
\* (None), or prints the one configured path
di_iso_path_in_config ==
    /\ pc = "di_iso_path_in_config"
    /\ \E out \in {"fail", "none", "many", "one"} :
         /\ Issue("localhost", "grep iso_path", "/etc/esmon_install.conf",
                  Exit(out # "fail"))
         /\ IF out = "one"
            THEN iso_path' = "configured.iso" /\ Goto("di_mount")
            ELSE iso_path' = "" /\ Goto("di_find_iso_path_in_cwd")
    /\ UNCHANGED <<notInst, installed, iso_files, mounted, mnt_dir,
                   eis_rpm_dependent_fnames, ddi_i, di_ret>>

\* (the result of find_iso_path_in_cwd is not tested)
di_find_iso_path_in_cwd_Unchecked ==
    /\ pc = "di_find_iso_path_in_cwd"
    /\ \E found \in BOOLEAN :
         /\ Issue("localhost", "find_iso_path_in_cwd", "", Exit(found))
         /\ iso_path' = (IF found THEN "cwd.iso" ELSE "")
         /\ Goto("di_mount")
    /\ UNCHANGED <<notInst, installed, iso_files, mounted, mnt_dir,
                   eis_rpm_dependent_fnames, ddi_i, di_ret>>

\* iso_path = esmon_install_common.find_iso_path_in_cwd(local_host)
di_find_iso_path_in_cwd ==
    /\ pc = "di_find_iso_path_in_cwd"
    /\ \E found \in BOOLEAN :
         /\ Issue("localhost", "find_iso_path_in_cwd", "", Exit(found))
         /\ IF found
            THEN iso_path' = "cwd.iso" /\ Goto("di_mount")
            ELSE iso_path' = "" /\ Return(-1)
    /\ UNCHANGED <<notInst, installed, iso_files, mounted, mnt_dir,
                   eis_rpm_dependent_fnames, ddi_i, di_ret>>

\* dependency_install going on after a mount that failed
di_mount_FailureIgnored ==
    /\ pc = "di_mount"
    /\ \E ok \in BOOLEAN :
         /\ Issue("localhost", "mkdir -p && mount -o loop", iso_path, Exit(ok))
         /\ mounted' = ok
         /\ mnt_dir' = TRUE
         /\ eis_rpm_dependent_fnames' = NoFnames
         /\ ddi_i' = 1
         /\ Call("ddi_for", "di_umount")
    /\ UNCHANGED <<notInst, installed, iso_files, iso_path, di_ret>>

\* mkdir -p mnt_path && mount -o loop iso_path mnt_path, then the call of
\* dependency_do_install, which makes an EsmonInstallServer; when the chain
\* fails the directory may have been made
di_mount ==
    /\ pc = "di_mount"
    /\ \E ok \in BOOLEAN :
         /\ Issue("localhost", "mkdir -p && mount -o loop", iso_path, Exit(ok))
         /\ IF ok
            THEN /\ mounted' = TRUE
                 /\ mnt_dir' = TRUE
                 /\ eis_rpm_dependent_fnames' = NoFnames
                 /\ ddi_i' = 1
                 /\ Call("ddi_for", "di_umount")
            ELSE /\ Return(-1)
                 /\ mnt_dir' \in {mnt_dir, TRUE}
                 /\ UNCHANGED <<mounted, eis_rpm_dependent_fnames, ddi_i>>
    /\ UNCHANGED <<notInst, installed, iso_files, iso_path, di_ret>>

\* the package the loop of dependency_do_install is at
dependent_rpm == ESMON_INSTALL_DEPENDENT_RPMS[ddi_i]

\* (eis_rpm_install listing the directory at every call)
ddi_rpm_query_AlwaysLists ==
    /\ pc = "ddi_for"
    /\ ddi_i <= Len(ESMON_INSTALL_DEPENDENT_RPMS)
    /\ Issue("localhost", "rpm -q", dependent_rpm,
             Exit(dependent_rpm \in installed))
    /\ IF dependent_rpm \in installed
       THEN ddi_i' = ddi_i + 1 /\ Goto("ddi_for")
       ELSE /\ UNCHANGED ddi_i
            /\ Call("eis_ls", "ddi_installed")
    /\ UNCHANGED <<notInst, installed, iso_files, iso_path, mounted, mnt_dir,
                   eis_rpm_dependent_fnames, di_ret>>

\* ret = local_host.sh_rpm_query(dependent_rpm): 0 when it is installed
ddi_rpm_query ==
    /\ pc = "ddi_for"
    /\ ddi_i <= Len(ESMON_INSTALL_DEPENDENT_RPMS)
    /\ Issue("localhost", "rpm -q", dependent_rpm,
             Exit(dependent_rpm \in installed))
    /\ IF dependent_rpm \in installed
       THEN ddi_i' = ddi_i + 1 /\ Goto("ddi_for")
       ELSE /\ UNCHANGED ddi_i
            /\ Call(IF eis_rpm_dependent_fnames = NoFnames
                    THEN "eis_ls" ELSE "eis_rpm_ivh", "ddi_installed")
    /\ UNCHANGED <<notInst, installed, iso_files, iso_path, mounted, mnt_dir,
                   eis_rpm_dependent_fnames, di_ret>>

\* eis_rpm_install: ls of eis_rpm_dependent_dir when the names are not known
eis_ls ==
    /\ pc = "eis_ls"
    /\ \E ok \in BOOLEAN :
         /\ Issue("localhost", "ls", "eis_rpm_dependent_dir", Exit(ok))
         /\ IF ok
            THEN /\ eis_rpm_dependent_fnames' = LsIso(iso_files)
                 /\ Goto("eis_rpm_ivh")
            ELSE Return(-1) /\ UNCHANGED eis_rpm_dependent_fnames
    /\ UNCHANGED <<notInst, installed, iso_files, iso_path, mounted, mnt_dir,
                   ddi_i, di_ret>>

\* (the search of eis_rpm_install without its break: the last match wins)
Matching_LastWins(name, fnames) ==
    LET hits == SelectSeq(fnames, LAMBDA f : RpmPatternMatch(name, f))
    IN  [k \in 1..Len(hits) |-> hits[Len(hits) + 1 - k]]
\* the first file name of the listing that matches the pattern of a package
Matching(name, fnames) ==
    SelectSeq(fnames, LAMBDA f : RpmPatternMatch(name, f))

\* eis_rpm_install: rpm -ivh of the first file name that matches
eis_rpm_ivh ==
    /\ pc = "eis_rpm_ivh"
    /\ IF Matching(dependent_rpm, eis_rpm_dependent_fnames) = <<>>
       THEN Return(-1) /\ UNCHANGED <<log, installed>>
       ELSE \E ok \in BOOLEAN :
              /\ Issue("localhost", "rpm -ivh",
                       Head(Matching(dependent_rpm, eis_rpm_dependent_fnames)),
                       Exit(ok))
              /\ IF ok
                 THEN /\ installed' = installed \cup {dependent_rpm}
                      /\ Return(0)
                 ELSE Return(-1) /\ UNCHANGED installed
    /\ UNCHANGED <<notInst, iso_files, iso_path, mounted, mnt_dir,
                   eis_rpm_dependent_fnames, ddi_i, di_ret>>

\* ret = esmon_installer.eis_rpm_install(dependent_rpm) has returned
ddi_installed ==
    /\ pc = "ddi_installed"
    /\ IF rv # 0
       THEN Return(-1) /\ UNCHANGED ddi_i
       ELSE ddi_i' = ddi_i + 1 /\ Goto("ddi_for")
    /\ UNCHANGED <<log, notInst, installed, iso_files, iso_path, mounted,
                   mnt_dir, eis_rpm_dependent_fnames, di_ret>>

ddi_return_0 ==
    /\ pc = "ddi_for"
    /\ ddi_i > Len(ESMON_INSTALL_DEPENDENT_RPMS)
    /\ Return(0)
    /\ UNCHANGED <<log, notInst, instVars>>

\* (the umount is skipped when the install failed)
di_umount_SkippedOnFailure ==
    /\ pc = "di_umount"
    /\ IF rv # 0
       THEN Return(rv) /\ UNCHANGED <<log, mounted, di_ret>>
       ELSE \E ok \in BOOLEAN :
              /\ Issue("localhost", "umount", "mnt_path", Exit(ok))
              /\ mounted' = (mounted /\ ~ok)
              /\ di_ret' = (IF ok THEN rv ELSE -1)
              /\ Goto("di_rmdir")
    /\ UNCHANGED <<notInst, installed, iso_files, iso_path, mnt_dir,
                   eis_rpm_dependent_fnames, ddi_i>>

\* (a failure of umount is not recorded in ret)
di_umount_FailureDropped ==
    /\ pc = "di_umount"
    /\ \E ok \in BOOLEAN :
         /\ Issue("localhost", "umount", "mnt_path", Exit(ok))
         /\ mounted' = (mounted /\ ~ok)
         /\ di_ret' = rv
         /\ Goto("di_rmdir")
    /\ UNCHANGED <<notInst, installed, iso_files, iso_path, mnt_dir,
                   eis_rpm_dependent_fnames, ddi_i>>

\* ret = dependency_do_install(...) has returned; umount mnt_path
di_umount ==
    /\ pc = "di_umount"
    /\ \E ok \in BOOLEAN :
         /\ Issue("localhost", "umount", "mnt_path", Exit(ok))
         /\ mounted' = (mounted /\ ~ok)
         /\ di_ret' = (IF ok THEN rv ELSE -1)
         /\ Goto("di_rmdir")
    /\ UNCHANGED <<notInst, installed, iso_files, iso_path, mnt_dir,
                   eis_rpm_dependent_fnames, ddi_i>>

\* rmdir mnt_path
di_rmdir ==
    /\ pc = "di_rmdir"
    /\ \E ok \in BOOLEAN :
         /\ Issue("localhost", "rmdir", "mnt_path", Exit(ok))
         /\ mnt_dir' = (mnt_dir /\ ~ok)
         /\ Return(IF ok THEN di_ret ELSE -1)
    /\ UNCHANGED <<notInst, installed, iso_files, iso_path, mounted,
                   eis_rpm_dependent_fnames, ddi_i, di_ret>>

dependency_do_install ==
    \/ ddi_rpm_query \/ eis_ls \/ eis_rpm_ivh \/ ddi_installed \/ ddi_return_0

dependency_install ==
    \/ di_iso_path_in_config \/ di_find_iso_path_in_cwd \/ di_mount
    \/ di_umount \/ di_rmdir

InitInstLocals ==
    /\ iso_path = ""
    /\ mounted = FALSE
    /\ mnt_dir = FALSE
    /\ eis_rpm_dependent_fnames = NoFnames
    /\ ddi_i = 1
    /\ di_ret = 0
    /\ missing_dependencies = <<>>
    /\ im_i = 1
    /\ delegated = FALSE

(***************************************************************************)
(* host_build(workspace, build_host, local_host, ..., distro)              *)
(***************************************************************************)
\* the hosts: the local host and a remote build host
Hosts == {"localhost", "buildhost"}
\* sh_distro() of a host that is neither RHEL6 nor RHEL7
NoDistro == "None"
\* the packages host_build removes from the build host: the i686 ones, as
\* the yum update leaves them, and zeromq-devel
I686 == "i686"
ZEROMQ == "zeromq-devel"
\* a dependent directory without a file
EmptyDir == [f \in DepFileNames |-> NoSum]

\* host_build without the distribution check
hb_distro_Unchecked ==
    /\ pc = "hb_distro"
    /\ Goto("hb_yum_update")
    /\ UNCHANGED <<log, notHb, dlVars, hbVars>>

\* if distro != build_host.sh_distro(): return -1
hb_distro ==
    /\ pc = "hb_distro"
    /\ IF distro # host_distro[build_host]
       THEN Return(-1)
       ELSE Goto("hb_yum_update")
    /\ UNCHANGED <<log, notHb, dlVars, hbVars>>

\* a step of host_build that is one command without an effect on the
\* directories of the model
HbCommand(here, h, c, a, next) ==
    /\ pc = here
    /\ \E ok \in BOOLEAN :
         /\ Issue(h, c, a, Exit(ok))
         /\ IF ok THEN Goto(next) ELSE Return(-1)
    /\ UNCHANGED <<notHb, dlVars, hbVars>>

hb_yum_update ==
    HbCommand("hb_yum_update", build_host, "yum update -y", "", "hb_grep_i686")

\* rpm -qa | grep i686: exit status 0 when an i686 package is installed
hb_grep_i686 ==
    /\ pc = "hb_grep_i686"
    /\ Issue(build_host, "rpm -qa | grep i686", "",
             Exit(I686 \in host_rpms[build_host]))
    /\ IF I686 \in host_rpms[build_host]
       THEN Goto("hb_rm_i686")
       ELSE Goto("hb_rm_zeromq")
    /\ UNCHANGED <<notHb, dlVars, hbVars>>

\* rpm -qa | grep i686 | xargs rpm -e
hb_rm_i686 ==
    /\ pc = "hb_rm_i686"
    /\ \E ok \in BOOLEAN :
         /\ Issue(build_host, "rpm -qa | grep i686 | xargs rpm -e", "", Exit(ok))
         /\ IF ok
            THEN /\ host_rpms' = [host_rpms EXCEPT ![build_host] = @ \ {I686}]
                 /\ Goto("hb_rm_zeromq")
            ELSE UNCHANGED host_rpms /\ Return(-1)
    /\ UNCHANGED <<notHb, dlVars, host_distro, local_dep_kind, local_dep,
                   copying_dep, dependent_rpm_cached>>

\* host_build looking at the exit status of rpm -e zeromq-devel
hb_rm_zeromq_Fatal ==
    /\ pc = "hb_rm_zeromq"
    /\ \E ok \in IF ZEROMQ \in host_rpms[build_host] THEN BOOLEAN ELSE {FALSE} :
         /\ Issue(build_host, "rpm -e", ZEROMQ, Exit(ok))
         /\ host_rpms' = IF ok
                         THEN [host_rpms EXCEPT ![build_host] = @ \ {ZEROMQ}]
                         ELSE host_rpms
         /\ IF ok THEN Goto("hb_yum_install") ELSE Return(-1)
    /\ UNCHANGED <<notHb, dlVars, host_distro, local_dep_kind, local_dep,
                   copying_dep, dependent_rpm_cached>>

\* rpm -e zeromq-devel: it fails when the package is not installed, and the
\* exit status is not looked at
hb_rm_zeromq ==
    /\ pc = "hb_rm_zeromq"
    /\ \E ok \in IF ZEROMQ \in host_rpms[build_host] THEN BOOLEAN ELSE {FALSE} :
         /\ Issue(build_host, "rpm -e", ZEROMQ, Exit(ok))
         /\ host_rpms' = IF ok
                         THEN [host_rpms EXCEPT ![build_host] = @ \ {ZEROMQ}]
                         ELSE host_rpms
    /\ Goto("hb_yum_install")
    /\ UNCHANGED <<notHb, dlVars, host_distro, local_dep_kind, local_dep,
                   copying_dep, dependent_rpm_cached>>

hb_yum_install ==
    HbCommand("hb_yum_install", build_host, "yum install -y", "build dependencies",
              "hb_mkdir_workspace")

\* host_build without the call of collectd_build_check
hb_mkdir_workspace_NoCheck ==
    /\ pc = "hb_mkdir_workspace"
    /\ \E ok \in BOOLEAN :
         /\ Issue(build_host, "mkdir -p", "workspace", Exit(ok))
         /\ IF ok THEN Goto("hb_test_e") ELSE Return(-1)
    /\ UNCHANGED <<notHb, dlVars, hbVars>>

\* mkdir -p workspace, then ret = collectd_build_check(...)
hb_mkdir_workspace ==
    /\ pc = "hb_mkdir_workspace"
    /\ \E ok \in BOOLEAN :
         /\ Issue(build_host, "mkdir -p", "workspace", Exit(ok))
         /\ IF ok THEN Call("cbc_ls", "hb_checked") ELSE Return(-1)
    /\ UNCHANGED <<notHb, dlVars, hbVars>>

\* collectd_build_check has returned: if ret: return -1
hb_checked ==
    /\ pc = "hb_checked"
    /\ IF rv # 0 THEN Return(-1) ELSE Goto("hb_test_e")
    /\ UNCHANGED <<log, notHb, dlVars, hbVars>>

\* test -e local_dependent_rpm_dir
hb_test_e ==
    /\ pc = "hb_test_e"
    /\ Issue("localhost", "test -e", "local_dependent_rpm_dir",
             Exit(local_dep_kind # "absent"))
    /\ dependent_rpm_cached' = FALSE
    /\ IF local_dep_kind # "absent" THEN Goto("hb_test_d") ELSE Goto("hb_prepare")
    /\ UNCHANGED <<notHb, dlVars, host_distro, host_rpms, local_dep_kind,
                   local_dep, copying_dep>>

\* host_build taking a cache that is a directory for no cache
hb_test_d_NeverCached ==
    /\ pc = "hb_test_d"
    /\ Issue("localhost", "test -d", "local_dependent_rpm_dir",
             Exit(local_dep_kind = "dir"))
    /\ UNCHANGED dependent_rpm_cached
    /\ IF local_dep_kind = "dir" THEN Goto("hb_prepare") ELSE Goto("hb_rm_f")
    /\ UNCHANGED <<notHb, dlVars, host_distro, host_rpms, local_dep_kind,
                   local_dep, copying_dep>>

\* test -d local_dependent_rpm_dir
hb_test_d ==
    /\ pc = "hb_test_d"
    /\ Issue("localhost", "test -d", "local_dependent_rpm_dir",
             Exit(local_dep_kind = "dir"))
    /\ IF local_dep_kind = "dir"
       THEN dependent_rpm_cached' = TRUE /\ Goto("hb_prepare")
       ELSE UNCHANGED dependent_rpm_cached /\ Goto("hb_rm_f")
    /\ UNCHANGED <<notHb, dlVars, host_distro, host_rpms, local_dep_kind,
                   local_dep, copying_dep>>

\* rm -f local_dependent_rpm_dir, which is not a directory
hb_rm_f ==
    /\ pc = "hb_rm_f"
    /\ \E ok \in BOOLEAN :
         /\ Issue("localhost", "rm -f", "local_dependent_rpm_dir", Exit(ok))
         /\ IF ok
            THEN local_dep_kind' = "absent" /\ Goto("hb_prepare")
            ELSE UNCHANGED local_dep_kind /\ Return(-1)
    /\ UNCHANGED <<notHb, dlVars, host_distro, host_rpms, local_dep,
                   copying_dep, dependent_rpm_cached>>

\* the cached dependent directory is sent to the host, or an empty one is
\* made there; then ret = download_dependent_rpms(...)
hb_prepare ==
    /\ pc = "hb_prepare"
    /\ \E ok \in BOOLEAN :
         IF dependent_rpm_cached
         THEN /\ Issue(build_host, "send_file", "local_dependent_rpm_dir", Exit(ok))
              /\ IF ok
                 THEN depdir' = local_dep /\ Call("dl_yumdb_sync", "hb_downloaded")
                 ELSE UNCHANGED depdir /\ Return(-1)
         ELSE /\ Issue(build_host, "mkdir -p", "host_dependent_rpm_dir", Exit(ok))
              /\ UNCHANGED depdir
              /\ IF ok
                 THEN Call("dl_yumdb_sync", "hb_downloaded")
                 ELSE Return(-1)
    /\ UNCHANGED <<notHb, hbVars, depdir0, existing_rpm_fnames, dependent_rpms,
                   dl_i, dl_j, rpm_fullname, sha256sum>>

\* host_build going on after a download_dependent_rpms that failed
hb_downloaded_Ignored ==
    /\ pc = "hb_downloaded"
    /\ Goto("hb_mkdir_copying")
    /\ UNCHANGED <<log, notHb, dlVars, hbVars>>

\* download_dependent_rpms has returned: if ret: return ret
hb_downloaded ==
    /\ pc = "hb_downloaded"
    /\ IF rv # 0 THEN Return(rv) ELSE Goto("hb_mkdir_copying")
    /\ UNCHANGED <<log, notHb, dlVars, hbVars>>

\* rm -fr local_copying_rpm_dir && mkdir -p local_copying_rpm_dir
hb_mkdir_copying ==
    /\ pc = "hb_mkdir_copying"
    /\ \E ok \in BOOLEAN :
         /\ Issue("localhost", "rm -fr && mkdir -p", "local_copying_rpm_dir",
                  Exit(ok))
         /\ IF ok
            THEN copying_dep' = EmptyDir /\ Goto("hb_get_file")
            ELSE UNCHANGED copying_dep /\ Return(-1)
    /\ UNCHANGED <<notHb, dlVars, host_distro, host_rpms, local_dep_kind,
                   local_dep, dependent_rpm_cached>>

\* build_host.sh_get_file(host_dependent_rpm_dir, local_copying_rpm_dir)
hb_get_file ==
    /\ pc = "hb_get_file"
    /\ \E ok \in BOOLEAN :
         /\ Issue(build_host, "get_file", "host_dependent_rpm_dir", Exit(ok))
         /\ IF ok
            THEN copying_dep' = depdir /\ Goto("hb_mv")
            ELSE UNCHANGED copying_dep /\ Return(-1)
    /\ UNCHANGED <<notHb, dlVars, host_distro, host_rpms, local_dep_kind,
                   local_dep, dependent_rpm_cached>>

\* rm -fr local_dependent_rpm_dir && mv local_copying_dependent_rpm_dir
\* local_dependent_rpm_dir && rm -rf local_copying_rpm_dir; when the chain
\* fails the first rm may have been done
hb_mv ==
    /\ pc = "hb_mv"
    /\ \E ok \in BOOLEAN :
         /\ Issue("localhost", "rm -fr && mv && rm -rf", "local_dependent_rpm_dir",
                  Exit(ok))
         /\ IF ok
            THEN /\ local_dep_kind' = "dir"
                 /\ local_dep' = copying_dep
                 /\ copying_dep' = EmptyDir
                 /\ Return(0)
            ELSE /\ local_dep_kind' \in {local_dep_kind, "absent"}
                 /\ UNCHANGED <<local_dep, copying_dep>>
                 /\ Return(-1)
    /\ UNCHANGED <<notHb, dlVars, host_distro, host_rpms, dependent_rpm_cached>>

host_build ==
    \/ hb_distro \/ hb_yum_update \/ hb_grep_i686 \/ hb_rm_i686 \/ hb_rm_zeromq
    \/ hb_yum_install \/ hb_mkdir_workspace \/ hb_checked \/ hb_test_e
    \/ hb_test_d \/ hb_rm_f \/ hb_prepare \/ hb_downloaded \/ hb_mkdir_copying
    \/ hb_get_file \/ hb_mv

InitHbLocals ==
    /\ copying_dep = EmptyDir
    /\ dependent_rpm_cached = FALSE

(***************************************************************************)
(* esmon_do_build, esmon_download_grafana_plugins, parse_host_configs      *)
(***************************************************************************)
\* the plugin names of GRAFANA_PLUGIN_GITS, in the order of iteration, and
\* the files every plugin checkout must hold
GRAFANA_PLUGIN_GITS == <<"Grafana_Status_panel", "grafana-piechart-panel">>
GRAFANA_PLUGIN_FILENAMES == <<"dist", "package.json">>
RPM_STRING == "RPMS"
\* the names of server_rpms, in the order of iteration
ServerRpmNames == <<"grafana-6.0.2-1.x86_64.rpm", "influxdb-1.7.4.x86_64.rpm">>

\* the entries iso_cached_dir and local_server_rpm_dir can hold, in the order
\* os.listdir gives them; every name is one word of a shell command, so that
\* rm -fr <dir>/<name> names the entry
CacheRootOrder ==
    <<"esmon-0.1.iso">> \o GRAFANA_PLUGIN_GITS \o <<RPM_STRING, "lost+found">>
ServerDirOrder == <<"grafana-5.4.3-1.x86_64.rpm">> \o ServerRpmNames
ListDir(order, dir) == SelectSeq(order, LAMBDA f : f \in dir)

\* host_id of a host config: an ID, None, or no such key
HostIds == {"h1", "None", "Missing"}
HostConfigs == [host_id : HostIds, hostname : {"buildhost", "None"}]
\* config_value gives None for a key that is absent, and for every key when
\* the config is None: "NoKey" for centos6_host, the empty list for ssh_hosts
NoConfig == [ssh_hosts |-> <<>>, centos6_host |-> "NoKey"]

\* parse_host_configs: ret, whether host_config["host_id"] raised KeyError,
\* and the IDs in hosts
RECURSIVE ParseHostConfigs(_, _)
ParseHostConfigs(host_configs, hosts) ==
    IF host_configs = <<>>
    THEN [ret |-> 0, raised |-> FALSE, hosts |-> hosts]
    ELSE LET host_config == Head(host_configs)
         IN  IF host_config.host_id = "Missing"
             THEN [ret |-> -1, raised |-> TRUE, hosts |-> hosts]
             ELSE IF \/ host_config.host_id = "None"
                     \/ host_config.hostname = "None"
                     \/ host_config.host_id \in hosts
             THEN [ret |-> -1, raised |-> FALSE, hosts |-> hosts]
             ELSE ParseHostConfigs(Tail(host_configs),
                                   hosts \cup {host_config.host_id})

\* an uncaught exception ends the process with status 1
Raise == pc' = "exited" /\ stack' = <<>> /\ status' = <<1>> /\ UNCHANGED rv

\* what the steps of esmon_do_build outside the calls of host_build leave alone
notEdb == <<args, dlVars, cbVars, hbVars, runVars, instVars>>

\* parse_host_configs and the centos6_host of the config
edb_parse ==
    /\ pc = "edb_parse"
    /\ LET parsed == ParseHostConfigs(config.ssh_hosts, {})
       IN  IF parsed.raised
           THEN Raise /\ UNCHANGED centos6_host
           ELSE /\ UNCHANGED status
                /\ IF parsed.ret # 0
                   THEN Return(-1) /\ UNCHANGED centos6_host
                   ELSE IF config.centos6_host = "NoKey"
                   THEN centos6_host' = "None" /\ Goto("edb_sh_distro")
                   ELSE IF \/ config.centos6_host = "None"
                           \/ config.centos6_host \notin parsed.hosts
                   THEN Return(-1) /\ UNCHANGED centos6_host
                   ELSE centos6_host' = "buildhost" /\ Goto("edb_sh_distro")
    /\ UNCHANGED <<log, notEdb, argv_len, log_dir, workspace_dir, config_file,
                   config, main_ret, cache_root, cache_root0, server_dir,
                   server_dir0, rpm_dir_other, existing_files, edb_i, gp_f>>

\* distro = local_host.sh_distro(): the build runs on RHEL7 only
edb_sh_distro ==
    /\ pc = "edb_sh_distro"
    /\ IF host_distro["localhost"] # DISTRO_RHEL7
       THEN Return(-1)
       ELSE Goto("edb_mkdir_rpms")
    /\ UNCHANGED <<log, notEdb, mainVars, edbVars>>

\* a step of esmon_do_build that is one command on the local host without an
\* effect on the directories of the model
EdbCommand(here, c, a, next) ==
    /\ pc = here
    /\ \E ok \in BOOLEAN :
         /\ Issue("localhost", c, a, Exit(ok))
         /\ IF ok THEN Goto(next) ELSE Return(-1)
    /\ UNCHANGED <<notEdb, mainVars, edbVars>>

\* mkdir -p rpm_dir
edb_mkdir_rpms ==
    /\ pc = "edb_mkdir_rpms"
    /\ \E ok \in BOOLEAN :
         /\ Issue("localhost", "mkdir -p", "rpm_dir", Exit(ok))
         /\ IF ok
            THEN cache_root' = cache_root \cup {RPM_STRING} /\ Goto("edb_clone")
            ELSE UNCHANGED cache_root /\ Return(-1)
    /\ UNCHANGED <<notEdb, mainVars, centos6_host, cache_root0, server_dir,
                   server_dir0, rpm_dir_other, existing_files, edb_i, gp_f>>

edb_clone ==
    EdbCommand("edb_clone", "clone_src_from_git", "collectd_git_path",
               "edb_rev_parse")

edb_rev_parse ==
    EdbCommand("edb_rev_parse", "git rev-parse --short HEAD", "collectd_git_path",
               "edb_grep_version")

edb_grep_version ==
    EdbCommand("edb_grep_version", "grep Version", "collectd.spec",
               "edb_grep_release")

edb_grep_release ==
    EdbCommand("edb_grep_release", "grep Release", "collectd.spec", "edb_rhel6")

\* if centos6_host is not None: ret = host_build(..., DISTRO_RHEL6)
edb_rhel6 ==
    /\ pc = "edb_rhel6"
    /\ IF centos6_host # "None"
       THEN /\ distro' = DISTRO_RHEL6
            /\ build_host' = centos6_host
            /\ Call("hb_distro", "edb_rhel6_built")
       ELSE /\ UNCHANGED <<distro, build_host>>
            /\ Goto("edb_rhel7")
    /\ UNCHANGED <<log, entry, dlVars, cbVars, hbVars, runVars, instVars,
                   mainVars, edbVars>>

\* esmon_do_build going on to RHEL7 whatever the RHEL6 host_build returned
edb_rhel6_built_Ignored ==
    /\ pc = "edb_rhel6_built"
    /\ Goto("edb_rhel7")
    /\ UNCHANGED <<log, notEdb, mainVars, edbVars>>

edb_rhel6_built ==
    /\ pc = "edb_rhel6_built"
    /\ IF rv # 0 THEN Return(-1) ELSE Goto("edb_rhel7")
    /\ UNCHANGED <<log, notEdb, mainVars, edbVars>>

\* ret = host_build(local_workspace, local_host, ..., DISTRO_RHEL7): the
\* directories of the call are those of RHEL7, and the workspace is new
edb_rhel7 ==
    /\ pc = "edb_rhel7"
    /\ distro' = DISTRO_RHEL7
    /\ build_host' = "localhost"
    /\ collectd_dir' = rpm_dir_other.collectd
    /\ local_dep_kind' = rpm_dir_other.dep_kind
    /\ local_dep' = rpm_dir_other.dep
    /\ rpm_dir_other' = [collectd |-> collectd_dir, dep_kind |-> local_dep_kind,
                         dep |-> local_dep]
    /\ depdir' = EmptyDir
    /\ host_rpm_dir' = {}
    /\ copying_dir' = {}
    /\ copying_dep' = EmptyDir
    /\ Call("hb_distro", "edb_rhel7_built")
    /\ UNCHANGED <<log, entry, runVars, instVars, mainVars, host_distro,
                   host_rpms, dependent_rpm_cached, depdir0, existing_rpm_fnames,
                   dependent_rpms, dl_i, dl_j, rpm_fullname, sha256sum,
                   collectd_dir0, rpm_collectd_fnames, cbc_k, centos6_host,
                   cache_root, cache_root0, server_dir, server_dir0,
                   existing_files, edb_i, gp_f>>

edb_rhel7_built ==
    /\ pc = "edb_rhel7_built"
    /\ IF rv # 0 THEN Return(-1) ELSE Goto("edb_mkdir_server")
    /\ UNCHANGED <<log, notEdb, mainVars, edbVars>>

\* mkdir -p local_server_rpm_dir
edb_mkdir_server ==
    /\ pc = "edb_mkdir_server"
    /\ \E ok \in BOOLEAN :
         /\ Issue("localhost", "mkdir -p", "local_server_rpm_dir", Exit(ok))
         /\ IF ok
            THEN edb_i' = 1 /\ Goto("edb_server_rpms")
            ELSE UNCHANGED edb_i /\ Return(-1)
    /\ UNCHANGED <<notEdb, mainVars, centos6_host, cache_root, cache_root0,
                   server_dir, server_dir0, rpm_dir_other, existing_files, gp_f>>

\* esmon_do_build downloading every server package, cached or not
edb_test_server_rpm_Always ==
    /\ pc = "edb_server_rpms"
    /\ edb_i <= Len(ServerRpmNames)
    /\ Issue("localhost", "test -e", ServerRpmNames[edb_i],
             Exit(ServerRpmNames[edb_i] \in server_dir))
    /\ UNCHANGED edb_i /\ Goto("edb_wget")
    /\ UNCHANGED <<notEdb, mainVars, centos6_host, cache_root, cache_root0,
                   server_dir, server_dir0, rpm_dir_other, existing_files, gp_f>>

\* for name, url in server_rpms: test -e fpath
edb_test_server_rpm ==
    /\ pc = "edb_server_rpms"
    /\ edb_i <= Len(ServerRpmNames)
    /\ Issue("localhost", "test -e", ServerRpmNames[edb_i],
             Exit(ServerRpmNames[edb_i] \in server_dir))
    /\ IF ServerRpmNames[edb_i] \in server_dir
       THEN edb_i' = edb_i + 1 /\ Goto("edb_server_rpms")
       ELSE UNCHANGED edb_i /\ Goto("edb_wget")
    /\ UNCHANGED <<notEdb, mainVars, centos6_host, cache_root, cache_root0,
                   server_dir, server_dir0, rpm_dir_other, existing_files, gp_f>>

\* cd local_server_rpm_dir && wget url
edb_wget ==
    /\ pc = "edb_wget"
    /\ \E ok \in BOOLEAN :
         /\ Issue("localhost", "wget", ServerRpmNames[edb_i], Exit(ok))
         /\ IF ok
            THEN /\ server_dir' = server_dir \cup {ServerRpmNames[edb_i]}
                 /\ edb_i' = edb_i + 1
                 /\ Goto("edb_server_rpms")
            ELSE UNCHANGED <<server_dir, edb_i>> /\ Return(-1)
    /\ UNCHANGED <<notEdb, mainVars, centos6_host, cache_root, cache_root0,
                   server_dir0, rpm_dir_other, existing_files, gp_f>>

\* the entries of a listing of local_server_rpm_dir that are no server RPM
ServerExtras(listing) ==
    SelectSeq(listing, LAMBDA f : f \notin Range(ServerRpmNames))

\* server_existing_files = os.listdir(local_server_rpm_dir) without the names
\* of server_rpms; list.remove raises ValueError for a name that is not there
edb_list_server ==
    /\ pc = "edb_server_rpms"
    /\ edb_i > Len(ServerRpmNames)
    /\ IF Range(ServerRpmNames) \subseteq server_dir
       THEN /\ existing_files' = ServerExtras(ListDir(ServerDirOrder, server_dir))
            /\ edb_i' = 1
            /\ Goto("edb_server_extras")
            /\ UNCHANGED status
       ELSE Raise /\ UNCHANGED <<existing_files, edb_i>>
    /\ UNCHANGED <<log, notEdb, argv_len, log_dir, workspace_dir, config_file,
                   config, main_ret, centos6_host, cache_root, cache_root0,
                   server_dir, server_dir0, rpm_dir_other, gp_f>>

\* for extra_fname in server_existing_files: rm -fr
edb_rm_server_extra ==
    /\ pc = "edb_server_extras"
    /\ edb_i <= Len(existing_files)
    /\ \E ok \in BOOLEAN :
         /\ Issue("localhost", "rm -fr local_server_rpm_dir/", existing_files[edb_i],
                  Exit(ok))
         /\ IF ok
            THEN /\ server_dir' = server_dir \ {existing_files[edb_i]}
                 /\ edb_i' = edb_i + 1
                 /\ Goto("edb_server_extras")
            ELSE UNCHANGED <<server_dir, edb_i>> /\ Return(-1)
    /\ UNCHANGED <<notEdb, mainVars, centos6_host, cache_root, cache_root0,
                   server_dir0, rpm_dir_other, existing_files, gp_f>>

\* ret = esmon_download_grafana_plugins(local_host, iso_cached_dir)
edb_server_extras_end ==
    /\ pc = "edb_server_extras"
    /\ edb_i > Len(existing_files)
    /\ edb_i' = 1
    /\ Goto("gp_test_e")
    /\ UNCHANGED <<log, notEdb, mainVars, centos6_host, cache_root, cache_root0,
                   server_dir, server_dir0, rpm_dir_other, existing_files, gp_f>>

\* esmon_download_grafana_plugin: test -e panel_git_path
gp_test_e ==
    /\ pc = "gp_test_e"
    /\ edb_i <= Len(GRAFANA_PLUGIN_GITS)
    /\ Issue("localhost", "test -e", GRAFANA_PLUGIN_GITS[edb_i],
             Exit(GRAFANA_PLUGIN_GITS[edb_i] \in cache_root))
    /\ IF GRAFANA_PLUGIN_GITS[edb_i] \in cache_root
       THEN Goto("gp_pull")
       ELSE Goto("gp_clone")
    /\ UNCHANGED <<notEdb, mainVars, edbVars>>

\* git clone git_url panel_git_path; a failure of the plugin download makes
\* esmon_download_grafana_plugins and then esmon_do_build return -1
gp_clone ==
    /\ pc = "gp_clone"
    /\ \E ok \in BOOLEAN :
         /\ Issue("localhost", "git clone", GRAFANA_PLUGIN_GITS[edb_i], Exit(ok))
         /\ IF ok
            THEN /\ cache_root' = cache_root \cup {GRAFANA_PLUGIN_GITS[edb_i]}
                 /\ gp_f' = 1
                 /\ Goto("gp_files")
            ELSE UNCHANGED <<cache_root, gp_f>> /\ Return(-1)
    /\ UNCHANGED <<notEdb, mainVars, centos6_host, cache_root0, server_dir,
                   server_dir0, rpm_dir_other, existing_files, edb_i>>

\* cd panel_git_path && git pull
gp_pull ==
    /\ pc = "gp_pull"
    /\ \E ok \in BOOLEAN :
         /\ Issue("localhost", "git pull", GRAFANA_PLUGIN_GITS[edb_i], Exit(ok))
         /\ IF ok
            THEN gp_f' = 1 /\ Goto("gp_files")
            ELSE UNCHANGED gp_f /\ Return(-1)
    /\ UNCHANGED <<notEdb, mainVars, centos6_host, cache_root, cache_root0,
                   server_dir, server_dir0, rpm_dir_other, existing_files, edb_i>>

\* the download of a plugin that does not look for the marker files
gp_test_file_Unchecked ==
    /\ pc = "gp_files"
    /\ gp_f <= Len(GRAFANA_PLUGIN_FILENAMES)
    /\ \E ok \in BOOLEAN :
         /\ Issue("localhost", "test -e",
                  GRAFANA_PLUGIN_GITS[edb_i] \o "/" \o GRAFANA_PLUGIN_FILENAMES[gp_f],
                  Exit(ok))
         /\ gp_f' = gp_f + 1 /\ Goto("gp_files")
    /\ UNCHANGED <<notEdb, mainVars, centos6_host, cache_root, cache_root0,
                   server_dir, server_dir0, rpm_dir_other, existing_files, edb_i>>

\* for filename in GRAFANA_PLUGIN_FILENAMES: test -e filepath
gp_test_file ==
    /\ pc = "gp_files"
    /\ gp_f <= Len(GRAFANA_PLUGIN_FILENAMES)
    /\ \E ok \in BOOLEAN :
         /\ Issue("localhost", "test -e",
                  GRAFANA_PLUGIN_GITS[edb_i] \o "/" \o GRAFANA_PLUGIN_FILENAMES[gp_f],
                  Exit(ok))
         /\ IF ok
            THEN gp_f' = gp_f + 1 /\ Goto("gp_files")
            ELSE UNCHANGED gp_f /\ Return(-1)
    /\ UNCHANGED <<notEdb, mainVars, centos6_host, cache_root, cache_root0,
                   server_dir, server_dir0, rpm_dir_other, existing_files, edb_i>>

\* the plugin is downloaded: on to the next one
gp_return_0 ==
    /\ pc = "gp_files"
    /\ gp_f > Len(GRAFANA_PLUGIN_FILENAMES)
    /\ edb_i' = edb_i + 1
    /\ Goto("gp_test_e")
    /\ UNCHANGED <<log, notEdb, mainVars, centos6_host, cache_root, cache_root0,
                   server_dir, server_dir0, rpm_dir_other, existing_files, gp_f>>

\* the entries of a listing of iso_cached_dir that are neither a plugin nor
\* the RPMS tree
RootExtras_None(listing) == <<>>
RootExtras(listing) ==
    SelectSeq(listing,
              LAMBDA f : f \notin Range(GRAFANA_PLUGIN_GITS) \cup {RPM_STRING})

\* every plugin is downloaded: dependent_existing_files =
\* os.listdir(iso_cached_dir) without the plugin names and "RPMS"; list.remove
\* raises ValueError for a name that is not there
edb_list_root ==
    /\ pc = "gp_test_e"
    /\ edb_i > Len(GRAFANA_PLUGIN_GITS)
    /\ IF Range(GRAFANA_PLUGIN_GITS) \cup {RPM_STRING} \subseteq cache_root
       THEN /\ existing_files' = RootExtras(ListDir(CacheRootOrder, cache_root))
            /\ edb_i' = 1
            /\ Goto("edb_root_extras")
            /\ UNCHANGED status
       ELSE Raise /\ UNCHANGED <<existing_files, edb_i>>
    /\ UNCHANGED <<log, notEdb, argv_len, log_dir, workspace_dir, config_file,
                   config, main_ret, centos6_host, cache_root, cache_root0,
                   server_dir, server_dir0, rpm_dir_other, gp_f>>

\* for extra_fname in dependent_existing_files: rm -fr
edb_rm_root_extra ==
    /\ pc = "edb_root_extras"
    /\ edb_i <= Len(existing_files)
    /\ \E ok \in BOOLEAN :
         /\ Issue("localhost", "rm -fr iso_cached_dir/", existing_files[edb_i],
                  Exit(ok))
         /\ IF ok
            THEN /\ cache_root' = cache_root \ {existing_files[edb_i]}
                 /\ edb_i' = edb_i + 1
                 /\ Goto("edb_root_extras")
            ELSE UNCHANGED <<cache_root, edb_i>> /\ Return(-1)
    /\ UNCHANGED <<notEdb, mainVars, centos6_host, cache_root0, server_dir,
                   server_dir0, rpm_dir_other, existing_files, gp_f>>

edb_root_extras_end ==
    /\ pc = "edb_root_extras"
    /\ edb_i > Len(existing_files)
    /\ Goto("edb_make")
    /\ UNCHANGED <<log, notEdb, mainVars, edbVars>>

\* cd current_dir && rm esmon-*.tar.bz2 esmon-*.tar.gz -f && sh autogen.sh &&
\* ./configure --with-cached-iso=iso_cached_dir && make
edb_make ==
    /\ pc = "edb_make"
    /\ \E ok \in BOOLEAN :
         /\ Issue("localhost", "autogen.sh && configure && make", "iso_cached_dir",
                  Exit(ok))
         /\ IF ~ok THEN Return(-1)
            ELSE IF centos6_host # "None" THEN Goto("edb_rm_workspace")
            ELSE Return(0)
    /\ UNCHANGED <<notEdb, mainVars, edbVars>>

\* the removal of the workspace with its exit status ignored
edb_rm_workspace_Ignored ==
    /\ pc = "edb_rm_workspace"
    /\ \E ok \in BOOLEAN :
         /\ Issue(centos6_host, "rm -fr", "centos6_workspace", Exit(ok))
         /\ Return(0)
    /\ UNCHANGED <<notEdb, mainVars, edbVars>>

\* rm -fr centos6_workspace on the CentOS6 host
edb_rm_workspace ==
    /\ pc = "edb_rm_workspace"
    /\ \E ok \in BOOLEAN :
         /\ Issue(centos6_host, "rm -fr", "centos6_workspace", Exit(ok))
         /\ IF ok THEN Return(0) ELSE Return(-1)
    /\ UNCHANGED <<notEdb, mainVars, edbVars>>

esmon_download_grafana_plugins ==
    \/ gp_test_e \/ gp_clone \/ gp_pull \/ gp_test_file \/ gp_return_0

esmon_do_build ==
    \/ edb_parse \/ edb_sh_distro \/ edb_mkdir_rpms \/ edb_clone
    \/ edb_rev_parse \/ edb_grep_version \/ edb_grep_release \/ edb_rhel6
    \/ edb_rhel6_built \/ edb_rhel7 \/ edb_rhel7_built \/ edb_mkdir_server
    \/ edb_test_server_rpm \/ edb_wget \/ edb_list_server
    \/ edb_rm_server_extra \/ edb_server_extras_end \/ edb_list_root
    \/ edb_rm_root_extra \/ edb_root_extras_end \/ edb_make
    \/ edb_rm_workspace

(***************************************************************************)
(* esmon_build and main of esmon_build.py                                  *)
(***************************************************************************)
\* the status the process ends with after sys.exit(v)
ExitStatus(v) == v % 256
SysExit(v) ==
    pc' = "exited" /\ stack' = <<>> /\ status' = <<ExitStatus(v)>> /\ UNCHANGED rv

notMain == <<log, args, dlVars, cbVars, hbVars, runVars, instVars, edbVars>>

\* main without the check of len(sys.argv)
main_argv_NoCheck ==
    /\ pc = "main"
    /\ Goto("main_log_dir")
    /\ UNCHANGED <<notMain, mainVars>>

\* more than one argument: usage() and sys.exit(-1)
main_argv ==
    /\ pc = "main"
    /\ IF argv_len > 2
       THEN SysExit(-1)
       ELSE Goto("main_log_dir") /\ UNCHANGED status
    /\ UNCHANGED <<notMain, argv_len, log_dir, workspace_dir, config_file, config,
                   main_ret>>

\* local_log_dir is made, or is there, or is no directory
main_log_dir ==
    /\ pc = "main_log_dir"
    /\ IF log_dir = "file"
       THEN SysExit(-1) /\ UNCHANGED log_dir
       ELSE log_dir' = "dir" /\ Goto("main_workspace") /\ UNCHANGED status
    /\ UNCHANGED <<notMain, argv_len, workspace_dir, config_file, config,
                   main_ret>>

\* local_workspace is made, or is there, or is no directory
main_workspace ==
    /\ pc = "main_workspace"
    /\ IF workspace_dir = "file"
       THEN SysExit(-1) /\ UNCHANGED workspace_dir
       ELSE workspace_dir' = "dir" /\ Goto("main_config") /\ UNCHANGED status
    /\ UNCHANGED <<notMain, argv_len, log_dir, config_file, config, main_ret>>

\* the config file, when there is one, is copied to the workspace; then
\* ret = esmon_build(current_dir, relative_workspace, config_fpath)
main_config ==
    /\ pc = "main_config"
    /\ IF config_file = "unreadable"
       THEN Raise
       ELSE Call("eb_load", "main_exit") /\ UNCHANGED status
    /\ UNCHANGED <<notMain, argv_len, log_dir, workspace_dir, config_file, config,
                   main_ret>>

\* esmon_build: the config is loaded, then return esmon_do_build(...)
esmon_build ==
    /\ pc = "eb_load"
    /\ IF config_file = "unreadable"
       THEN Raise
       ELSE /\ UNCHANGED status
            /\ IF config_file = "garbage"
               THEN Return(-1)
               ELSE Goto("edb_parse")
    /\ UNCHANGED <<notMain, argv_len, log_dir, workspace_dir, config_file, config,
                   main_ret>>

\* esmon_build has returned: if ret: sys.exit(ret); sys.exit(0)
main_exit_AlwaysZero ==
    /\ pc = "main_exit"
    /\ main_ret' = <<rv>>
    /\ SysExit(0)
    /\ UNCHANGED <<notMain, argv_len, log_dir, workspace_dir, config_file, config>>

main_exit ==
    /\ pc = "main_exit"
    /\ main_ret' = <<rv>>
    /\ IF rv # 0 THEN SysExit(rv) ELSE SysExit(0)
    /\ UNCHANGED <<notMain, argv_len, log_dir, workspace_dir, config_file, config>>

main ==
    \/ main_argv \/ main_log_dir \/ main_workspace \/ main_config \/ main_exit

\* a path is absent, a plain file or a directory
DirKinds == {"absent", "file", "dir"}

\* the dependent directory that holds every required package of a distro
\* with its checksum, and the one left by an older run: the first package
\* has another checksum and there is a file no package owns
CorrectDir(d) ==
    [f \in DepFileNames |->
        IF \E p \in Range(DependentRpmsFor(d)) : f = RpmFilename(RpmFullName(p))
        THEN YumdbSha256(RpmFullName(
                CHOOSE p \in Range(DependentRpmsFor(d)) :
                    f = RpmFilename(RpmFullName(p))))
        ELSE NoSum]
StaleDir(d) ==
    LET first == RpmFilename(RpmFullName(DependentRpmsFor(d)[1]))
    IN  [f \in DepFileNames |->
            IF f = first THEN (CorrectDir(d)[f] % NumSums) + 1
            ELSE IF f = StrayName(1) THEN 1
            ELSE CorrectDir(d)[f]]
\* the contents local_dependent_rpm_dir can have before a build
BuildDepDirs(d) == {EmptyDir, CorrectDir(d), StaleDir(d)}

\* the contents local_collectd_rpm_dir can have before a build: nothing,
\* every expected RPM, and every expected RPM with files of older builds
BuildCollectdDirs(d) ==
    IF DistroNumber(d) = "" THEN {{}, ExpectedRpms(DISTRO_RHEL7)}
    ELSE {{}, ExpectedRpms(d),
          ExpectedRpms(d) \cup {CollectdStrayOrder[1], CollectdStrayOrder[2]}}

\* the entries iso_cached_dir and local_server_rpm_dir can have before a build
CacheRoots ==
    {{}, {RPM_STRING}, Range(CacheRootOrder),
     {RPM_STRING, GRAFANA_PLUGIN_GITS[1], CacheRootOrder[1]}}
ServerDirs ==
    {{}, Range(ServerDirOrder), {ServerDirOrder[1], ServerRpmNames[1]}}
\* the RPMS/rhel7 tree before a build
RpmDirs ==
    {r \in [collectd : BuildCollectdDirs(DISTRO_RHEL7), dep_kind : DirKinds,
            dep : BuildDepDirs(DISTRO_RHEL7)] :
        r.dep_kind # "dir" => r.dep = EmptyDir}
\* the cache of the first build: nothing is there
NewCache ==
    [rpms |-> [collectd |-> {}, dep_kind |-> "absent", dep |-> EmptyDir],
     root |-> {}, server |-> {}]
\* the caches a build can start on: the one of the first build, those where
\* the RPMS/rhel7 tree holds any of its contents and those where the cache
\* root and the server directory hold any of their entries
Caches ==
    {[rpms |-> r, root |-> NewCache.root, server |-> NewCache.server] :
        r \in RpmDirs}
    \cup {[rpms |-> NewCache.rpms, root |-> c, server |-> s] :
             c \in CacheRoots, s \in ServerDirs}

\* sequences over S of length at most n
SeqsUpTo(S, n) == UNION {[1..k -> S] : k \in 0..n}
\* the configs a yaml file can hold
Configs ==
    {[ssh_hosts |-> l, centos6_host |-> c] :
        l \in SeqsUpTo(HostConfigs, MaxHosts), c \in {"NoKey", "None", "h1"}}

\* a run that is not the build program
InitNoBuild ==
    /\ argv_len = 1
    /\ log_dir = "absent"
    /\ workspace_dir = "absent"
    /\ config_file = "absent"
    /\ config = NoConfig
    /\ main_ret = <<>>
    /\ status = <<>>
    /\ centos6_host = "None"
    /\ cache_root = {}
    /\ cache_root0 = {}
    /\ server_dir = {}
    /\ server_dir0 = {}
    /\ rpm_dir_other = [collectd |-> {}, dep_kind |-> "absent", dep |-> EmptyDir]
    /\ existing_files = <<>>
    /\ edb_i = 1
    /\ gp_f = 1

\* a run without host_build
InitNoHostBuild ==
    /\ host_distro = [h \in Hosts |-> DISTRO_RHEL7]
    /\ host_rpms = [h \in Hosts |-> {}]
    /\ local_dep_kind = "absent"
    /\ local_dep = EmptyDir
    /\ InitHbLocals

(***************************************************************************)
(* main of esmon_install.py                                                *)
(***************************************************************************)
\* what main of esmon_install leaves alone
notIm == <<args, dlVars, cbVars, runVars, hbVars, mainVars, edbVars, installed,
           iso_files, iso_path, mounted, mnt_dir, eis_rpm_dependent_fnames,
           ddi_i, di_ret>>

\* the imports: the package of every library whose import raises ImportError
\* is appended to missing_dependencies
im_imports ==
    /\ pc = "im_imports"
    /\ missing_dependencies' =
           SelectSeq(PYTHON_LIBS, LAMBDA lib : lib \notin importable)
    /\ im_i' = 1
    /\ Goto("im_rpm_query")
    /\ UNCHANGED <<log, notIm, importable, delegated>>

\* what the test of ret of sh_rpm_query in main takes for a missing package
QueriedMissing_NotInstalled(ret) == ret # 0
QueriedMissing(ret) == ret = 0

\* for dependent_rpm in ESMON_INSTALL_DEPENDENT_RPMS:
\*     ret = local_host.sh_rpm_query(dependent_rpm)
\*     if ret == 0: missing_dependencies.append(dependent_rpm)
im_rpm_query ==
    /\ pc = "im_rpm_query"
    /\ im_i <= Len(ESMON_INSTALL_DEPENDENT_RPMS)
    /\ LET rpm == ESMON_INSTALL_DEPENDENT_RPMS[im_i]
           ret == Exit(rpm \in installed)
       IN  /\ Issue("localhost", "rpm -q", rpm, ret)
           /\ missing_dependencies' =
                  IF QueriedMissing(ret)
                  THEN Append(missing_dependencies, rpm)
                  ELSE missing_dependencies
    /\ im_i' = im_i + 1
    /\ Goto("im_rpm_query")
    /\ UNCHANGED <<notIm, importable, delegated>>

\* if len(missing_dependencies): ret = dependency_install(local_host)
im_dependency_install ==
    /\ pc = "im_rpm_query"
    /\ im_i > Len(ESMON_INSTALL_DEPENDENT_RPMS)
    /\ IF Len(missing_dependencies) # 0
       THEN Call("di_iso_path_in_config", "im_installed")
       ELSE Goto("im_nodeps")
    /\ UNCHANGED <<log, notIm, imVars>>

\* main without the test of ret of dependency_install
im_installed_Unchecked ==
    /\ pc = "im_installed"
    /\ Goto("im_nodeps") /\ UNCHANGED status
    /\ UNCHANGED <<log, args, dlVars, cbVars, runVars, hbVars, edbVars, instVars,
                   argv_len, log_dir, workspace_dir, config_file, config,
                   main_ret>>

\* dependency_install has returned: if ret: return.  main returns to the
\* interpreter, which ends with status 0
im_installed_ExitsOnFailure ==
    /\ pc = "im_installed"
    /\ IF rv # 0
       THEN pc' = "exited" /\ stack' = <<>> /\ status' = <<255>> /\ UNCHANGED rv
       ELSE Goto("im_nodeps") /\ UNCHANGED status
    /\ UNCHANGED <<log, args, dlVars, cbVars, runVars, hbVars, edbVars, instVars,
                   argv_len, log_dir, workspace_dir, config_file, config,
                   main_ret>>

im_installed ==
    /\ pc = "im_installed"
    /\ IF rv # 0
       THEN pc' = "returned" /\ stack' = <<>> /\ status' = <<0>> /\ UNCHANGED rv
       ELSE Goto("im_nodeps") /\ UNCHANGED status
    /\ UNCHANGED <<log, args, dlVars, cbVars, runVars, hbVars, edbVars, instVars,
                   argv_len, log_dir, workspace_dir, config_file, config,
                   main_ret>>

\* esmon_install_nodeps.main(): the installer, which ends the process with
\* a status of its own
im_nodeps ==
    /\ pc = "im_nodeps"
    /\ delegated' = TRUE
    /\ pc' = "exited"
    /\ stack' = <<>>
    /\ \E s \in {0, 255} : status' = <<s>>
    /\ UNCHANGED <<rv, log, args, dlVars, cbVars, runVars, hbVars, edbVars,
                   installed, iso_files, iso_path, mounted, mnt_dir,
                   eis_rpm_dependent_fnames, ddi_i, di_ret, importable,
                   missing_dependencies, im_i, argv_len, log_dir, workspace_dir,
                   config_file, config, main_ret>>

install_main ==
    \/ im_imports \/ im_rpm_query \/ im_dependency_install \/ im_installed
    \/ im_nodeps

\* the contents a dependent directory can have before a run
DepDirs ==
    {d \in [DepFileNames -> Sums \cup {NoSum}] :
        Cardinality({f \in DepFileNames : d[f] # NoSum}) <= MaxInitFiles}

InitDlLocals ==
    /\ existing_rpm_fnames = <<>>
    /\ dependent_rpms = <<>>
    /\ dl_i = 1
    /\ dl_j = 1
    /\ rpm_fullname = ""
    /\ sha256sum = NoSum

(***************************************************************************)
(* download_dependent_rpms called on a host whose dependent directory      *)
(* holds any files.                                                        *)
(***************************************************************************)
InitDownload ==
    /\ entry = "download_dependent_rpms"
    /\ pc = "dl_yumdb_sync"
    /\ stack = <<>>
    /\ rv = 0
    /\ log = <<>>
    /\ distro \in Distros
    /\ build_host = "buildhost"
    /\ depdir \in DepDirs
    /\ depdir0 = depdir
    /\ InitDlLocals
    /\ collectd_dir = {}
    /\ InitCbLocals
    /\ InitRun
    /\ installed = {}
    /\ iso_files = {}
    /\ InitInstLocals
    /\ importable = Range(PYTHON_LIBS)
    /\ InitNoHostBuild
    /\ InitNoBuild

NextDownload == download_dependent_rpms

SpecDownload == InitDownload /\ [][NextDownload]_vars

(***************************************************************************)
(* collectd_build_check, or collectd_build alone, run on a local cache     *)
(* directory that holds any files.                                         *)
(***************************************************************************)
InitCollectd ==
    /\ entry \in {"collectd_build_check", "collectd_build"}
    /\ pc = IF entry = "collectd_build" THEN "cb_send_file" ELSE "cbc_ls"
    /\ stack = <<>>
    /\ rv = 0
    /\ log = <<>>
    /\ distro \in Distros
    /\ build_host = "buildhost"
    /\ depdir = [f \in DepFileNames |-> NoSum]
    /\ depdir0 = depdir
    /\ InitDlLocals
    /\ collectd_dir \in IF entry = "collectd_build"
                        THEN {{}, ExpectedRpms(DISTRO_RHEL7)}
                        ELSE CollectdDirs
    /\ InitCbLocals
    /\ InitRun
    /\ installed = {}
    /\ iso_files = {}
    /\ InitInstLocals
    /\ importable = Range(PYTHON_LIBS)
    /\ InitNoHostBuild
    /\ InitNoBuild

NextCollectd == collectd_build_check \/ collectd_build \/ cbc_again

SpecCollectd == InitCollectd /\ [][NextCollectd]_vars

(***************************************************************************)
(* dependency_install run on a local host with any of the install-time     *)
(* packages installed, and an ISO that holds any of the files.             *)
(***************************************************************************)
InitInstall ==
    /\ entry = "dependency_install"
    /\ pc = "di_iso_path_in_config"
    /\ stack = <<>>
    /\ rv = 0
    /\ log = <<>>
    /\ distro = DISTRO_RHEL7
    /\ build_host = "localhost"
    /\ depdir = [f \in DepFileNames |-> NoSum]
    /\ depdir0 = depdir
    /\ InitDlLocals
    /\ collectd_dir = {}
    /\ InitCbLocals
    /\ InitRun
    /\ installed \in SUBSET Range(ESMON_INSTALL_DEPENDENT_RPMS)
    /\ iso_files \in SUBSET Range(IsoFileOrder)
    /\ InitInstLocals
    /\ importable = Range(PYTHON_LIBS)
    /\ InitNoHostBuild
    /\ InitNoBuild

NextInstall == dependency_install \/ dependency_do_install

SpecInstall == InitInstall /\ [][NextInstall]_vars

(***************************************************************************)
(* host_build, or collectd_build_check or collectd_build alone, called     *)
(* with any distro on a build host of any distribution.                    *)
(***************************************************************************)
InitHostBuild ==
    /\ entry \in {"host_build", "collectd_build_check", "collectd_build"}
    /\ pc = IF entry = "host_build" THEN "hb_distro"
            ELSE IF entry = "collectd_build" THEN "cb_send_file" ELSE "cbc_ls"
    /\ stack = <<>>
    /\ rv = 0
    /\ log = <<>>
    /\ distro \in Distros
    /\ build_host = "buildhost"
    /\ host_distro \in
         IF entry = "host_build"
         THEN {[h \in Hosts |-> IF h = "buildhost" THEN d ELSE DISTRO_RHEL7] :
                 d \in {DISTRO_RHEL6, DISTRO_RHEL7, NoDistro}}
         ELSE {[h \in Hosts |-> DISTRO_RHEL7]}
    /\ host_rpms \in
         IF entry = "host_build"
         THEN {[h \in Hosts |-> IF h = "buildhost" THEN r ELSE {}] :
                 r \in SUBSET {I686, ZEROMQ}}
         ELSE {[h \in Hosts |-> {}]}
    /\ depdir = EmptyDir
    /\ depdir0 = depdir
    /\ InitDlLocals
    /\ collectd_dir \in BuildCollectdDirs(distro)
    /\ InitCbLocals
    /\ InitRun
    /\ installed = {}
    /\ iso_files = {}
    /\ InitInstLocals
    /\ importable = Range(PYTHON_LIBS)
    /\ local_dep_kind \in IF entry = "host_build" THEN DirKinds ELSE {"absent"}
    /\ local_dep \in IF local_dep_kind = "dir" THEN BuildDepDirs(distro)
                     ELSE {EmptyDir}
    /\ InitHbLocals
    /\ InitNoBuild

NextHostBuild ==
    host_build \/ collectd_build_check \/ collectd_build
    \/ download_dependent_rpms

SpecHostBuild == InitHostBuild /\ [][NextHostBuild]_vars

(***************************************************************************)
(* The build program: main, esmon_build, esmon_do_build and everything     *)
(* they call, started with any arguments and config on a cache that holds  *)
(* any entries.                                                            *)
(***************************************************************************)
\* the config reaches the builds: parse_host_configs and the centos6_host
\* of the config are fine
ConfigParses(c) ==
    LET parsed == ParseHostConfigs(c.ssh_hosts, {})
    IN  /\ parsed.ret = 0
        /\ c.centos6_host = "NoKey" \/ c.centos6_host \in parsed.hosts

InitBuild ==
    /\ entry = "main"
    /\ pc = "main"
    /\ stack = <<>>
    /\ rv = 0
    /\ log = <<>>
    /\ argv_len \in 1..MaxArgv
    /\ log_dir \in DirKinds
    /\ workspace_dir \in IF log_dir = "dir" THEN DirKinds ELSE {"absent"}
    /\ config_file \in {"absent", "unreadable", "garbage", "yaml"}
    /\ config \in IF config_file = "yaml" THEN Configs ELSE {NoConfig}
    /\ main_ret = <<>>
    /\ status = <<>>
    /\ LET builds == /\ argv_len <= 2
                     /\ log_dir # "file"
                     /\ workspace_dir # "file"
                     /\ config_file \in {"absent", "yaml"}
                     /\ ConfigParses(config)
           rhel6 == builds /\ config.centos6_host # "NoKey"
       IN  /\ host_distro \in
                {[h \in Hosts |-> IF h = "buildhost" THEN d ELSE l] :
                   d \in IF rhel6 THEN {DISTRO_RHEL6, DISTRO_RHEL7}
                         ELSE {DISTRO_RHEL6},
                   l \in IF builds THEN {DISTRO_RHEL7, NoDistro}
                         ELSE {DISTRO_RHEL7}}
           /\ collectd_dir = ExpectedRpms(DISTRO_RHEL6)
           /\ local_dep_kind \in IF rhel6 THEN {"absent", "dir"} ELSE {"absent"}
           /\ local_dep = IF local_dep_kind = "dir" THEN CorrectDir(DISTRO_RHEL6)
                          ELSE EmptyDir
           /\ \E cache \in IF rhel6 /\ host_distro = [h \in Hosts |->
                                    IF h = "buildhost" THEN DISTRO_RHEL6
                                    ELSE DISTRO_RHEL7]
                             THEN Caches ELSE {NewCache} :
                 /\ host_rpms \in
                      {[h \in Hosts |-> IF h = "localhost" THEN r ELSE {}] :
                         r \in IF cache = NewCache /\ rhel6
                               THEN {{}, {I686, ZEROMQ}} ELSE {{}}}
                 /\ rpm_dir_other = cache.rpms
                 /\ cache_root = cache.root
                 /\ server_dir = cache.server
    /\ cache_root0 = cache_root
    /\ server_dir0 = server_dir
    /\ distro = DISTRO_RHEL6
    /\ build_host = "buildhost"
    /\ depdir = EmptyDir
    /\ depdir0 = depdir
    /\ InitDlLocals
    /\ InitCbLocals
    /\ InitRun
    /\ installed = {}
    /\ iso_files = {}
    /\ InitInstLocals
    /\ importable = Range(PYTHON_LIBS)
    /\ InitHbLocals
    /\ centos6_host = "None"
    /\ existing_files = <<>>
    /\ edb_i = 1
    /\ gp_f = 1

NextBuild ==
    main \/ esmon_build \/ esmon_do_build \/ esmon_download_grafana_plugins
    \/ host_build \/ collectd_build_check \/ collectd_build
    \/ download_dependent_rpms

SpecBuild == InitBuild /\ [][NextBuild]_vars

(***************************************************************************)
(* The install program: main of esmon_install.py and everything it calls,  *)
(* started where any of the libraries import, any of the install-time      *)
(* packages are installed and the ISO holds any of the files.              *)
(***************************************************************************)
InitInstallMain ==
    /\ entry = "install_main"
    /\ pc = "im_imports"
    /\ stack = <<>>
    /\ rv = 0
    /\ log = <<>>
    /\ distro = DISTRO_RHEL7
    /\ build_host = "localhost"
    /\ depdir = [f \in DepFileNames |-> NoSum]
    /\ depdir0 = depdir
    /\ InitDlLocals
    /\ collectd_dir = {}
    /\ InitCbLocals
    /\ InitRun
    /\ installed \in SUBSET Range(ESMON_INSTALL_DEPENDENT_RPMS)
    /\ iso_files \in SUBSET Range(IsoFileOrder)
    /\ InitInstLocals
    /\ importable \in {Range(PYTHON_LIBS) \ m :
                         m \in {x \in SUBSET Range(PYTHON_LIBS) :
                                  Cardinality(x) <= MaxMissing}}
    /\ InitNoHostBuild
    /\ InitNoBuild

NextInstallMain == install_main \/ dependency_install \/ dependency_do_install

SpecInstallMain == InitInstallMain /\ [][NextInstallMain]_vars

\* the function the run started in has returned v
Returned(v) == pc = "done" /\ rv = v


\* some command c with argument a was issued
Issued(c, a) == \E i \in 1..Len(log) : log[i].cmd = c /\ log[i].arg = a
\* some command c with argument a was issued and gave result r
IssuedRes(c, a, r) ==
    \E i \in 1..Len(log) : log[i].cmd = c /\ log[i].arg = a /\ log[i].res = r

(***************************************************************************)
(* Claims about download_dependent_rpms.                                   *)
(***************************************************************************)
\* the file name a required package is cached under
RequiredFile(p) == RpmFilename(RpmFullName(p))
RequiredPkgs == Range(DependentRpmsFor(distro))

\* C1: whenever download_dependent_rpms returns 0, the directory holds, for
\* each required package, the file <installed full name>.rpm with the
\* checksum the yum database records, and holds no other file; for every
\* initial content of the directory.
C1_ExactlyTheRequiredFiles ==
    (entry = "download_dependent_rpms" /\ Returned(0)) =>
        \A f \in DepFileNames :
            IF \E p \in RequiredPkgs : f = RequiredFile(p)
            THEN \E p \in RequiredPkgs :
                    f = RequiredFile(p) /\ depdir[f] = YumdbSha256(RpmFullName(p))
            ELSE depdir[f] = NoSum

\* C2: after a successful run, a required file that was cached with a wrong
\* checksum has been deleted and downloaded again and is present with the
\* recorded checksum; a required file that was cached with the recorded
\* checksum, and whose checksum the host could compute, was neither removed
\* nor downloaded again.
C2_MismatchRecovery ==
    (entry = "download_dependent_rpms" /\ Returned(0)) =>
        \A p \in RequiredPkgs :
            LET f == RequiredFile(p)
                good == YumdbSha256(RpmFullName(p))
            IN  /\ depdir0[f] \notin {NoSum, good} =>
                    /\ Issued("rm", f)
                    /\ Issued("yumdownloader", p)
                    /\ depdir[f] = good
                /\ (depdir0[f] = good /\ ~IssuedRes("sha256sum", f, NoSum)) =>
                    /\ ~Issued("rm", f)
                    /\ ~Issued("yumdownloader", p)
                    /\ depdir[f] = good


(***************************************************************************)
(* Claims about collectd_build_check.                                      *)
(***************************************************************************)
\* the commands of the running invocation
ThisCall == (log0 + 1)..Len(log)
\* collectd_build was called in the running invocation (with a recognized
\* distro its first statement sends the checkout to the build host)
BuildCalled == \E i \in ThisCall : log[i].cmd = "send_file"
\* a file was removed from the cache directory in the running invocation
RemovalIssued == \E i \in ThisCall : log[i].cmd \in {"rm -f", "rm -fr"}
\* a command of the running invocation failed
CommandFailed == \E i \in ThisCall : log[i].res # 0

\* what the claim says of an invocation that finds every RPM cached, but
\* for its return value
C3_NoBuildOnlyPrune ==
    /\ AllCached(collectd_dir0) =>
          /\ ~BuildCalled
          /\ collectd_dir \subseteq collectd_dir0
          /\ \A f \in collectd_dir0 \ collectd_dir :
                ~CollectRpmMatch(f, collectd_version_release,
                                 DistroNumber(distro))
    /\ prev_ok =>
          /\ ~BuildCalled
          /\ ~RemovalIssued
          /\ collectd_dir = collectd_dir0

\* C3 as stated: when the cache directory holds the expected RPM of every
\* name, collectd_build_check calls collectd_build zero times, returns 0 and
\* only removes files that do not match the pattern; a second invocation
\* right after the first removes nothing and builds nothing.
C3_Original ==
    entry = "collectd_build_check" =>
        /\ C3_NoBuildOnlyPrune
        /\ (AllCached(collectd_dir0) /\ pc = "done") => rv = 0

\* C3 amended: as stated, but the invocation returns 0 only if the listing
\* command and every removal command succeed, and returns -1 as soon as one
\* of them fails; the second invocation is one that follows a first one that
\* returned 0.
C3_Amended ==
    entry = "collectd_build_check" =>
        /\ C3_NoBuildOnlyPrune
        /\ (AllCached(collectd_dir0) /\ pc = "done") =>
              rv = (IF CommandFailed THEN -1 ELSE 0)

\* a second invocation has returned 0, after a first one that found every RPM
\* cached, removed a file and returned 0
C3_Witness ==
    /\ entry = "collectd_build_check"
    /\ calls = 2 /\ prev_ok /\ Returned(0)
    /\ \E i \in 1..log0 : log[i].cmd = "rm -f" /\ log[i].res = 0
    /\ Len(log) > log0

\* C4: whenever collectd_build_check returns 0, the cache directory holds the
\* expected RPM of every name in COLLECTD_RPM_NAMES for the requested
\* version-release and distro; so when collectd_build succeeded and an
\* expected RPM is absent, collectd_build_check returns -1.
C4_ReturnZeroMeansAllPresent ==
    (entry = "collectd_build_check" /\ pc = "done") =>
        /\ rv = 0 => AllCached(collectd_dir)
        /\ (BuildCalled /\ ~AllCached(collectd_dir)) => rv = -1

\* collectd_build_check has returned 0 after a build that succeeded
C4_Witness ==
    /\ entry = "collectd_build_check"
    /\ Returned(0)
    /\ \E i \in ThisCall : log[i].cmd = "mv" /\ log[i].res = 0


(***************************************************************************)
(* Claims about dependency_install.                                        *)
(***************************************************************************)
\* the positions of log at which command c was issued
At(c) == {i \in 1..Len(log) : log[i].cmd = c}
\* the positions of log at which command c was issued and succeeded
OkAt(c) == {i \in At(c) : log[i].res = 0}
\* the positions of log at which command c was issued and failed
FailedAt(c) == {i \in At(c) : log[i].res # 0}

MountCmd == "mkdir -p && mount -o loop"
\* dependency_do_install returned 0: its loop went past the last package
DoInstallSucceeded == ddi_i > Len(ESMON_INSTALL_DEPENDENT_RPMS)

\* C6: in dependency_install, when the image path is found neither in the
\* configuration nor in the current directory, the function returns -1 and
\* no mkdir/mount, no package install, no umount and no rmdir is issued.
C6_NoImageNoMount ==
    (entry = "dependency_install" /\ FailedAt("find_iso_path_in_cwd") # {}) =>
        /\ Returned(-1)
        /\ iso_path = ""
        /\ At(MountCmd) \cup At("rpm -ivh") \cup At("umount") \cup At("rmdir") = {}

\* dependency_install has returned after neither the configuration nor the
\* current directory gave an image path
C6_Witness ==
    /\ entry = "dependency_install"
    /\ pc = "done"
    /\ At("grep iso_path") # {}
    /\ FailedAt("find_iso_path_in_cwd") # {}

\* C7: in dependency_install, once the mount command has succeeded, umount
\* and then rmdir of the mount directory are issued before the function
\* returns, whether dependency_do_install succeeded or failed, and rmdir is
\* issued also when umount failed.
C7_MountIsReleased ==
    (entry = "dependency_install" /\ pc = "done" /\ OkAt(MountCmd) # {}) =>
        \E m \in OkAt(MountCmd), u \in At("umount"), r \in At("rmdir") :
            m < u /\ u < r

\* dependency_install has returned after a mount that succeeded, an install
\* that failed and a umount that failed
C7_Witness ==
    /\ entry = "dependency_install"
    /\ pc = "done"
    /\ OkAt(MountCmd) # {}
    /\ ~DoInstallSucceeded
    /\ FailedAt("umount") # {}
    /\ At("rmdir") # {}

\* C8: after a mount that succeeded, dependency_install returns 0 if and
\* only if dependency_do_install succeeded and both umount and rmdir
\* succeeded; in every other case it returns -1.
C8_ResultAfterCleanup ==
    (entry = "dependency_install" /\ pc = "done" /\ OkAt(MountCmd) # {}) =>
        /\ rv = 0 <=> /\ DoInstallSucceeded
                      /\ OkAt("umount") # {}
                      /\ OkAt("rmdir") # {}
        /\ rv \in {0, -1}
        /\ DoInstallSucceeded <=>
              Range(ESMON_INSTALL_DEPENDENT_RPMS) \subseteq installed

\* dependency_install has returned -1 after an install that failed and a
\* cleanup that succeeded
C8_Witness ==
    /\ entry = "dependency_install"
    /\ Returned(-1)
    /\ OkAt(MountCmd) # {}
    /\ ~DoInstallSucceeded
    /\ OkAt("umount") # {}
    /\ OkAt("rmdir") # {}

(***************************************************************************)
(* Claims about a distro that is neither RHEL6 nor RHEL7.                  *)
(***************************************************************************)
\* C5: called with a distro that is neither of the two recognized ones,
\* collectd_build, collectd_build_check and host_build return failure at
\* once: no command or file transfer is ever issued on any host, and the
\* value returned is not 0.
C5_UnknownDistroFailsAtOnce ==
    (/\ entry \in {"collectd_build", "collectd_build_check", "host_build"}
     /\ DistroNumber(distro) = "")
    => /\ log = <<>>
       /\ pc = "done" => rv # 0

(***************************************************************************)
(* Claims about esmon_do_build and main of esmon_build.py.                 *)
(***************************************************************************)
\* esmon_do_build has returned v to main, through esmon_build
DoBuildReturned(v) == pc = "main_exit" /\ rv = v /\ config_file # "garbage"
\* the entries the cache root and the server directory are to hold
RecognizedEntries == Range(GRAFANA_PLUGIN_GITS) \cup {RPM_STRING}
ServerArchives == Range(ServerRpmNames)
MakeCmd == "autogen.sh && configure && make"
\* the removal c of entry f was issued before command i and succeeded
RemovedBefore(c, f, i) ==
    \E j \in 1..(i - 1) : log[j].cmd = c /\ log[j].arg = f /\ log[j].res = 0

\* C9: whenever esmon_do_build returns 0, the cache root holds nothing but
\* plugin directories and the RPMS tree, the RHEL7 server directory holds
\* exactly the two server archives, and every other entry that was in those
\* two directories was removed before the image assembly command was issued.
C9_OnlyRecognizedEntriesLeft ==
    DoBuildReturned(0)
    => /\ cache_root \subseteq RecognizedEntries
       /\ server_dir = ServerArchives
       /\ OkAt(MakeCmd) # {}
       /\ \A i \in At(MakeCmd) :
            /\ \A f \in cache_root0 \ RecognizedEntries :
                 RemovedBefore("rm -fr iso_cached_dir/", f, i)
            /\ \A f \in server_dir0 \ ServerArchives :
                 RemovedBefore("rm -fr local_server_rpm_dir/", f, i)

\* esmon_do_build returned 0 on a cache whose root and server directory both
\* held an entry that is not recognized, with a CentOS6 host configured
C9_Witness ==
    /\ DoBuildReturned(0)
    /\ centos6_host # "None"
    /\ cache_root0 \ RecognizedEntries # {}
    /\ server_dir0 \ ServerArchives # {}

\* C10: the build program exits with status 0 exactly when esmon_build
\* returned 0; when esmon_build returned another value the program exits with
\* that value, which is a status other than 0.
C10_ExitStatusIsBuildResult ==
    pc = "exited"
    => /\ status = <<0>> <=> main_ret = <<0>>
       /\ (main_ret # <<>> /\ main_ret # <<0>>)
          => /\ status = <<ExitStatus(main_ret[1])>>
             /\ status # <<0>>

\* the program has exited after a command of the pipeline failed and
\* esmon_build returned -1
C10_Witness ==
    /\ pc = "exited"
    /\ main_ret = <<-1>>
    /\ status = <<255>>
    /\ \E i \in 1..Len(log) : log[i].cmd = "wget" /\ log[i].res # 0

(***************************************************************************)
(* Claims about the arguments of the build program.                        *)
(***************************************************************************)
\* C11: the build program takes no or one argument.  With more than one it
\* exits with a status other than 0 and, before that, makes no log or
\* workspace directory, issues no command and does not call esmon_build;
\* with at most one it goes on to the log directory.
C11_TooManyArguments ==
    /\ [](argv_len > 2 =>
            /\ pc \in {"main", "exited"}
            /\ log = <<>>
            /\ main_ret = <<>>
            /\ pc = "exited" => (status # <<>> /\ status # <<0>>))
    /\ [](argv_len <= 2 /\ pc = "exited" => log_dir # "absent")
    /\ [][argv_len > 2 => UNCHANGED <<log_dir, workspace_dir>>]_vars

\* the program was started with two arguments, where the log directory is
\* yet to be made, and has exited
C11_Witness ==
    /\ argv_len = 3
    /\ pc = "exited"
    /\ status = <<255>>
    /\ log_dir = "absent"
\* a library main of esmon_install imports does not import, or an
\* install-time package is not installed
SomethingMissing ==
    \/ importable # Range(PYTHON_LIBS)
    \/ ~(Range(ESMON_INSTALL_DEPENDENT_RPMS) \subseteq installed)

\* C12: main of esmon_install calls dependency_install if and only if a
\* required library does not import or a required install-time package is
\* not installed; when every library imports and every package is installed
\* it goes to the installer directly and no mount command is issued.
C12_ProvisionIffMissing ==
    /\ [][pc = "im_rpm_query" /\ pc' # "im_rpm_query"
            => (pc' = "di_iso_path_in_config" <=> SomethingMissing)]_vars
    /\ (~SomethingMissing
            => [](\A i \in 1..Len(log) : log[i].cmd # MountCmd))
\* the last command of a host_build that returns 0: the new dependency
\* directory replaces the old one
HostBuildLastCmd == "rm -fr && mv && rm -rf"
\* host_build is entered for distribution d in this step
HostBuildCalledFor(d) == pc # "hb_distro" /\ pc' = "hb_distro" /\ distro' = d
\* host_build returns v to esmon_do_build in this step
HostBuildReturns(v) ==
    /\ pc \notin {"edb_rhel6_built", "edb_rhel7_built"}
    /\ pc' \in {"edb_rhel6_built", "edb_rhel7_built"}
    /\ rv' = v

\* C13: in esmon_do_build the assembly command is issued only after
\* host_build has returned 0 for RHEL7, and for RHEL6 too when a
\* centos6_host is configured; with no centos6_host configured host_build is
\* never called for RHEL6 and no command goes to a CentOS6 host, and the
\* RHEL7 build is still made.
C13_AssemblyAfterHostBuilds ==
    /\ [](At(MakeCmd) # {} =>
            /\ Cardinality(OkAt(HostBuildLastCmd)) =
                   IF centos6_host = "None" THEN 1 ELSE 2
            /\ \A i \in At(MakeCmd) : \A j \in OkAt(HostBuildLastCmd) : j < i)
    /\ [](centos6_host = "None" =>
            \A i \in 1..Len(log) : log[i].host = "localhost")
    /\ [][/\ HostBuildCalledFor(DISTRO_RHEL6) => centos6_host # "None"
          /\ HostBuildCalledFor(DISTRO_RHEL7) =>
                 \/ centos6_host = "None"
                 \/ Cardinality(OkAt(HostBuildLastCmd)) = 1
          /\ HostBuildReturns(0) =>
                 /\ log'[Len(log')].cmd = HostBuildLastCmd
                 /\ log'[Len(log')].res = 0
          /\ (pc = "edb_rhel7_built" /\ rv # 0) => pc' = "main_exit"]_vars

\* the pipeline succeeds with no centos6_host configured: only the RHEL7
\* host_build was made, and the assembly followed it
C13_Witness ==
    /\ DoBuildReturned(0)
    /\ centos6_host = "None"
    /\ At(MakeCmd) # {}
    /\ Cardinality(OkAt(HostBuildLastCmd)) = 1

\* the pipeline succeeds with a centos6_host configured
C13_WitnessBoth ==
    /\ DoBuildReturned(0)
    /\ centos6_host # "None"
    /\ Cardinality(OkAt(HostBuildLastCmd)) = 2
\* the positions of log at which command c was issued with argument a
AtArg(c, a) == {i \in At(c) : log[i].arg = a}
\* every command of the first set was issued before every one of the second
AllBefore(first, second) == \A i \in first : \A j \in second : i < j
\* the positions of the commands of the steps of host_build
HbRefresh == At("yum update -y")
HbRemoveI686 == At("rpm -qa | grep i686") \cup At("rpm -qa | grep i686 | xargs rpm -e")
HbRemoveConflicting == AtArg("rpm -e", ZEROMQ)
HbInstallDeps == AtArg("yum install -y", "build dependencies")
\* the positions of the commands of download_dependent_rpms
HbDownload ==
    At("yumdb sync") \cup AtArg("ls", "dependent_dir")
    \cup AtArg("yum install -y", "dependent_rpms") \cup At("yumdb sha256")
    \cup At("sha256sum") \cup At("rm") \cup At("yumdownloader")
\* the positions of the commands of collectd_build_check and collectd_build
HbBuildOrReuse ==
    AtArg("mkdir -p && ls", "local_collectd_rpm_dir")
    \cup AtArg("ls", "local_collectd_rpm_dir") \cup At("rpmbuild -ba")
    \cup AtArg("send_file", "collectd_git_path")

\* the order of the steps of host_build up to the installation of the build
\* dependencies
HbPreparationInOrder ==
    entry = "host_build" =>
        /\ AllBefore(HbRefresh, HbRemoveI686)
        /\ AllBefore(HbRemoveI686, HbRemoveConflicting)
        /\ AllBefore(HbRemoveConflicting, HbInstallDeps)
        /\ AllBefore(HbInstallDeps, HbDownload \cup HbBuildOrReuse)
        /\ HbBuildOrReuse \cup HbDownload # {} => HbInstallDeps # {}
        /\ HbInstallDeps # {} => HbRefresh # {} /\ HbRemoveConflicting # {}

\* C14: host_build verifies the distribution, refreshes the packages,
\* removes the i686 packages, removes the conflicting package, installs the
\* build dependencies, then runs download_dependent_rpms and after it
\* collectd_build_check: every command of download_dependent_rpms is issued
\* before the first command of collectd_build_check, which starts only when
\* the download has been made.
C14_DownloadBeforeBuildCheck ==
    entry = "host_build" =>
        /\ HbPreparationInOrder
        /\ AllBefore(HbDownload, HbBuildOrReuse)
        /\ HbBuildOrReuse # {} => HbDownload # {}
\* C14 amended: the steps up to the installation of the build dependencies
\* are in the order stated, but collectd_build_check comes first and
\* download_dependent_rpms second: every command of collectd_build_check and
\* of collectd_build is issued before the first command of
\* download_dependent_rpms, which starts only when collectd_build_check was
\* made.
C14_Amended ==
    entry = "host_build" =>
        /\ HbPreparationInOrder
        /\ AllBefore(HbBuildOrReuse, HbDownload)
        /\ HbDownload # {} => HbBuildOrReuse # {}

\* host_build has returned 0 after a build of collectd and a download
C14_Witness ==
    /\ entry = "host_build"
    /\ Returned(0)
    /\ At("rpmbuild -ba") # {}
    /\ At("yumdownloader") # {}
    /\ At("rpm -qa | grep i686 | xargs rpm -e") # {}
\* C15: when the build host reports a distribution other than the requested
\* one, host_build returns -1 and has issued no command at all: no package
\* refresh, removal or installation, no build, no download, no transfer.
C15_DistroMismatchStopsHostBuild ==
    (entry = "host_build" /\ distro # host_distro[build_host]) =>
        /\ log = <<>>
        /\ pc \in {"hb_distro", "done"}
        /\ pc = "done" => rv = -1
        /\ depdir = depdir0 /\ copying_dep = EmptyDir /\ copying_dir = {}

\* host_build has returned on a host of another distribution than requested
C15_Witness ==
    /\ entry = "host_build"
    /\ distro = DISTRO_RHEL7 /\ host_distro[build_host] = DISTRO_RHEL6
    /\ Returned(-1)
\* the positions of the commands of the preparation of host_build whose
\* failure is looked at
HbFatal ==
    HbRefresh \cup At("rpm -qa | grep i686 | xargs rpm -e") \cup HbInstallDeps

\* C16: in host_build the exit status of `rpm -e zeromq-devel` changes
\* nothing: the installation of the build dependencies is the next step
\* whether the removal succeeded or failed. A failure of the package refresh,
\* of the removal of the i686 packages or of the installation of the build
\* dependencies makes host_build return -1 with no later command.
C16_OnlyConflictRemovalIsBestEffort ==
    entry = "host_build" =>
        /\ \A i \in HbRemoveConflicting :
              IF i = Len(log)
              THEN pc = "hb_yum_install"
              ELSE i + 1 \in HbInstallDeps
        /\ \A i \in HbFatal :
              log[i].res # 0 => i = Len(log) /\ Returned(-1)

\* host_build has returned 0 although the removal of zeromq-devel failed
C16_Witness ==
    /\ entry = "host_build"
    /\ Returned(0)
    /\ \E i \in HbRemoveConflicting : log[i].res # 0

\* host_build has returned 0 after a removal of zeromq-devel that succeeded
C16_WitnessRemoved ==
    /\ entry = "host_build"
    /\ Returned(0)
    /\ \E i \in HbRemoveConflicting : log[i].res = 0

\* host_build has returned -1 at the removal of the i686 packages
C16_WitnessFatal ==
    /\ entry = "host_build"
    /\ Returned(-1)
    /\ log # <<>>
    /\ log[Len(log)].cmd = "rpm -qa | grep i686 | xargs rpm -e"
\* C17: when dependency_install returns non-zero to main of esmon_install,
\* the process ends with a non-zero exit status; main does not return
\* normally.
C17_ProvisioningFailureIsExitStatus ==
    [][(pc = "im_installed" /\ rv # 0) =>
          /\ pc' = "exited"
          /\ status' # <<>> /\ status' # <<0>>]_vars
\* the commands of the running invocation that start a collectd_build (its
\* first statement, with a recognized distro, sends the checkout)
BuildsStarted ==
    {i \in ThisCall : log[i].cmd = "send_file" /\ log[i].arg = "collectd_git_path"}
\* collectd_build is called in this step
BuildIsCalled == pc # "cb_send_file" /\ pc' = "cb_send_file"

\* C18: collectd_build_check calls collectd_build if and only if the listing
\* of the local cache directory (the listing command succeeded, for a
\* recognized distro) lacks the file name of an RPM of COLLECTD_RPM_NAMES for
\* the version-release and distro; a call builds at most once, and a call
\* that builds issues no rm -f of a cached file.
C18_BuildIffAnExpectedRpmIsAbsent ==
    /\ [][entry = "collectd_build_check" =>
            /\ BuildIsCalled <=>
                  /\ pc = "cbc_ls"
                  /\ log'[Len(log')].res = 0
                  /\ DistroNumber(distro) # ""
                  /\ \E f \in ExpectedRpms(distro) :
                        f \notin Range(LsCollectd(collectd_dir))
            /\ BuildIsCalled => BuildsStarted = {}]_vars
    /\ [](entry = "collectd_build_check" =>
            /\ Cardinality(BuildsStarted) <= 1
            /\ BuildsStarted # {} =>
                  \A i \in ThisCall : log[i].cmd # "rm -f")

\* collectd_build_check has built and returned 0 on a directory that held
\* every expected RPM but one, and a file that is no expected RPM
C18_Witness ==
    /\ entry = "collectd_build_check"
    /\ Returned(0)
    /\ BuildsStarted # {}
    /\ Cardinality(ExpectedRpms(distro) \ collectd_dir0) = 1
    /\ CollectdStrayOrder[1] \in collectd_dir0
\* the file names of the required packages
RequiredFiles == {RequiredFile(p) : p \in RequiredPkgs}
\* every required package has been processed: the eviction loop is reached
EvictionReached == dependent_rpms # <<>> /\ dl_i > Len(dependent_rpms)
\* every required package is satisfied: its file is there with the recorded
\* checksum
AllSatisfied ==
    \A p \in RequiredPkgs : depdir[RequiredFile(p)] = YumdbSha256(RpmFullName(p))

\* the part of C19 about failures: a file that is not the file of a required
\* package is gone only when the eviction loop was reached, and a call that
\* stops in the processing of a required package returns -1; the eviction
\* starts with every required package satisfied
C19_NoEvictionBeforeAllSatisfied ==
    entry = "download_dependent_rpms" =>
        /\ \A f \in DepFileNames \ RequiredFiles :
              (depdir0[f] # NoSum /\ depdir[f] = NoSum) => EvictionReached
        /\ (pc = "done" /\ ~EvictionReached) => rv = -1
        /\ pc = "dl_for_fname" => EvictionReached
        /\ (pc = "dl_for_fname" /\ dl_j = 1) => AllSatisfied

\* C19: download_dependent_rpms evicts only after every required package is
\* satisfied: when the processing of a required package fails it returns -1
\* and no file other than files of required packages has been deleted; and
\* the eviction deletes only files that are not the file of a required
\* package.
C19_EvictionOnlyOfUnmatchedFiles ==
    /\ []C19_NoEvictionBeforeAllSatisfied
    /\ [][(entry = "download_dependent_rpms" /\ pc = "dl_for_fname"
             /\ log' # log)
            => log'[Len(log')].arg \notin RequiredFiles]_vars
\* the positions of log at which dependency_do_install queried a package and
\* installed a file, and the number of queries up to position i
Queries == At("rpm -q")
Installs == At("rpm -ivh")
QueriesUpTo(i) == Cardinality({q \in Queries : q <= i})
\* the query that an install or a later query follows
LastQueryBefore(i) == CHOOSE q \in Queries : q < i /\ \A r \in Queries : r < i => r <= q
\* the first file name of the listing of the image that matches package name
FirstMatch(name) ==
    LET fnames == LsIso(iso_files)
        hits == {k \in 1..Len(fnames) : RpmPatternMatch(name, fnames[k])}
    IN  fnames[CHOOSE k \in hits : \A m \in hits : k <= m]

\* C20: dependency_do_install queries the packages of
\* ESMON_INSTALL_DEPENDENT_RPMS in order; after a package reported installed
\* no install command follows; for one not installed the first file name of
\* the listing that matches its pattern is installed; when no name matches
\* or the install command fails the function returns -1 and no later package
\* is queried or installed.
C20_InstallFirstMatchInOrder ==
    /\ [](entry = "dependency_install" =>
            /\ \A q \in Queries :
                  log[q].arg = ESMON_INSTALL_DEPENDENT_RPMS[QueriesUpTo(q)]
            /\ \A i \in Installs :
                  /\ \E q \in Queries : q < i
                  /\ LET q == LastQueryBefore(i)
                     IN  /\ log[q].res # 0
                         /\ \A j \in Installs : LastQueryBefore(j) = q => j = i
                         /\ \E f \in iso_files : RpmPatternMatch(log[q].arg, f)
                         /\ log[i].arg = FirstMatch(log[q].arg)
            /\ \A q \in Queries :
                  (QueriesUpTo(q) > 1 /\ log[LastQueryBefore(q)].res # 0) =>
                      \E i \in Installs :
                          LastQueryBefore(q) < i /\ i < q /\ log[i].res = 0)
    /\ [][entry = "dependency_install" =>
            /\ (pc = "eis_rpm_ivh"
                  /\ \A f \in iso_files : ~RpmPatternMatch(dependent_rpm, f))
               => (pc' = "ddi_installed" /\ rv' = -1 /\ log' = log)
            /\ (pc = "eis_rpm_ivh" /\ log' # log /\ log'[Len(log')].res # 0)
               => (pc' = "ddi_installed" /\ rv' = -1)
            /\ (pc = "ddi_installed" /\ rv # 0)
               => (pc' = "di_umount" /\ rv' = -1 /\ log' = log)
            /\ (pc # "di_umount" /\ pc' = "di_umount")
               => rv' = IF pc = "ddi_for" THEN 0 ELSE -1]_vars

\* the image holds two files of rsync: the first of the listing was installed,
\* PyYAML was found installed and skipped, and dependency_do_install returned 0
C20_Witness ==
    /\ entry = "dependency_install"
    /\ pc = "done"
    /\ DoInstallSucceeded
    /\ {IsoRpmName("rsync", IsoVersions[1]), IsoRpmName("rsync", IsoVersions[2])}
           \subseteq iso_files
    /\ \E i \in OkAt("rpm -ivh") : log[i].arg = IsoRpmName("rsync", IsoVersions[1])
    /\ \E q \in OkAt("rpm -q") : log[q].arg = "PyYAML"
    /\ Cardinality(Installs) = 1

\* no file of the image matches rsync: dependency_do_install returned -1 with
\* no install and no query of PyYAML
C20_WitnessNoMatch ==
    /\ entry = "dependency_install"
    /\ pc = "done"
    /\ OkAt("ls") # {}
    /\ Installs = {}
    /\ Cardinality(Queries) = 1
    /\ IsoRpmName("PyYAML", IsoVersions[1]) \in iso_files
(***************************************************************************)
(* Claims about collectd_build.                                            *)
(***************************************************************************)
\* the commands of collectd_build, in the order of its statements
CbSteps ==
    <<"send_file", "build.sh && configure && make dist-bzip2",
      "ls collectd-*.tar.bz2", "tar jxf && mv && tar cjf",
      "mkdir {BUILD,RPMS,SOURCES,SRPMS} && mv", "rpmbuild -ba", "mkdir -p",
      "rm -fr", "get_file", "mv">>

\* C21: collectd_build sends the checkout, runs build/configure/dist, locates
\* the one tarball, renames it, stages it, runs rpmbuild, then replaces the
\* local cache directory with the RPMs fetched from the build host, in this
\* order; the first step that fails makes it return -1 with no later step,
\* and the local cache directory is not removed and nothing is fetched
\* unless rpmbuild succeeded.
C21_StepsInOrderFirstFailureStops ==
    entry = "collectd_build" =>
        /\ Len(log) <= Len(CbSteps)
        /\ \A i \in 1..Len(log) : log[i].cmd = CbSteps[i]
        /\ \A i \in 1..(Len(log) - 1) : log[i].res = 0
        /\ pc = "done" =>
              rv = (IF Len(log) = Len(CbSteps) /\ log[Len(log)].res = 0
                    THEN 0 ELSE -1)
        /\ (pc # "done" /\ log # <<>>) => log[Len(log)].res = 0
        /\ (collectd_dir # collectd_dir0 \/ copying_dir # {}
              \/ At("rm -fr") # {} \/ At("get_file") # {})
           => OkAt("rpmbuild -ba") # {}

\* collectd_build has returned -1 at a failed rpmbuild, with the cache
\* directory as it was
C21_Witness ==
    /\ entry = "collectd_build"
    /\ Returned(-1)
    /\ log # <<>>
    /\ log[Len(log)].cmd = "rpmbuild -ba" /\ log[Len(log)].res # 0
    /\ collectd_dir = collectd_dir0 /\ collectd_dir # {}

\* collectd_build has returned 0 and the cache directory holds what was fetched
C21_WitnessBuilt ==
    /\ entry = "collectd_build"
    /\ Returned(0)
    /\ collectd_dir = host_rpm_dir /\ collectd_dir # collectd_dir0
(***************************************************************************)
(* Claims about the dependency cache of host_build.                        *)
(***************************************************************************)
\* the positions of the transfer of the cached dependency directory to the
\* build host, and of the creation of an empty one there
HbSendCache == AtArg("send_file", "local_dependent_rpm_dir")
HbMkdirHostDep == AtArg("mkdir -p", "host_dependent_rpm_dir")
\* the local dependency cache holds, for every required package, its file
\* with the checksum the yum database records
CacheComplete ==
    /\ local_dep_kind = "dir"
    /\ \A p \in RequiredPkgs :
          local_dep[RequiredFile(p)] = YumdbSha256(RpmFullName(p))
\* host_build is running: the local cache is still the one it was called on
HbRunning == entry = "host_build" /\ pc # "done"

\* what C22 says of the transfer: a cache that is a directory is sent to the
\* build host before download_dependent_rpms runs, and the directory is made
\* empty on the host only when there is no such cache
C22_CacheSentBeforeDownload ==
    HbRunning =>
        /\ HbSendCache # {} => local_dep_kind = "dir" /\ HbMkdirHostDep = {}
        /\ HbMkdirHostDep # {} => local_dep_kind = "absent"
        /\ HbDownload # {} =>
              /\ IF local_dep_kind = "dir"
                 THEN OkAt("send_file") \cap HbSendCache # {}
                 ELSE OkAt("mkdir -p") \cap HbMkdirHostDep # {}
              /\ AllBefore(HbSendCache \cup HbMkdirHostDep, HbDownload)

AfterServerRpms ==
    At("rm -fr local_server_rpm_dir/") \cup At("rm -fr iso_cached_dir/")
    \cup At("git clone") \cup At("git pull") \cup At(MakeCmd)

\* C23: esmon_do_build downloads a server package if and only if no file of
\* its name is in the server directory: the download follows the test of an
\* absent file and nothing else, a file that is there is not downloaded, no
\* package is downloaded twice; a download that fails is the last command
\* and the pipeline returns -1, with no removal of unknown entries, no plugin
\* download and no assembly made.
C23_ServerRpmDownloadedIffAbsent ==
    entry = "main" =>
        \A k \in 1..Len(ServerRpmNames) :
            LET name == ServerRpmNames[k]
                tests == AtArg("test -e", name)
                gets == AtArg("wget", name)
            IN  /\ Cardinality(tests) <= 1 /\ Cardinality(gets) <= 1
                /\ \A t \in tests :
                      /\ log[t].res # 0 <=> name \notin server_dir0
                      /\ IF log[t].res # 0
                         THEN IF t = Len(log) THEN pc = "edb_wget"
                              ELSE t + 1 \in gets
                         ELSE gets = {}
                /\ \A g \in gets :
                      /\ g - 1 \in tests
                      /\ name \notin server_dir0
                      /\ AllBefore({g}, AfterServerRpms)
                      /\ log[g].res # 0 =>
                            /\ g = Len(log)
                            /\ pc \in {"main_exit", "exited"} /\ rv = -1
                            /\ AfterServerRpms = {}

\* the pipeline has returned 0 after the download of the one server package
\* that was not cached
C23_Witness ==
    /\ DoBuildReturned(0)
    /\ ServerRpmNames[1] \in server_dir0
    /\ ServerRpmNames[2] \notin server_dir0
    /\ AtArg("wget", ServerRpmNames[1]) = {}
    /\ OkAt("wget") \cap AtArg("wget", ServerRpmNames[2]) # {}

\* the pipeline has returned -1 at the download of the second server package,
\* after the download of the first
C23_WitnessFailed ==
    /\ DoBuildReturned(-1)
    /\ OkAt("wget") # {}
    /\ FailedAt("wget") # {}
\* the path of marker file f in the checkout of plugin p
MarkerPath(p, f) == p \o "/" \o f
\* the positions of the commands of the download of plugin p
PluginCmds(p) ==
    AtArg("test -e", p) \cup AtArg("git clone", p) \cup AtArg("git pull", p)
    \cup UNION {AtArg("test -e", MarkerPath(p, GRAFANA_PLUGIN_FILENAMES[m])) :
                  m \in 1..Len(GRAFANA_PLUGIN_FILENAMES)}
\* esmon_download_grafana_plugin returned 0 for plugin p: it was cloned or
\* pulled, and every marker file was found
PluginDone(p) ==
    /\ \E i \in OkAt("git clone") \cup OkAt("git pull") : log[i].arg = p
    /\ \A m \in 1..Len(GRAFANA_PLUGIN_FILENAMES) :
          IssuedRes("test -e", MarkerPath(p, GRAFANA_PLUGIN_FILENAMES[m]), 0)

\* C24: a plugin whose directory is absent from the cache root is cloned, one
\* that is there is pulled; the download of a plugin returns 0 only when
\* every marker file was found in the checkout after that; the first plugin
\* that fails ends esmon_download_grafana_plugins, with no command for the
\* plugins after it.
C24_PluginClonedOrPulledAndVerified ==
    entry = "main" =>
        /\ \A k \in 1..Len(GRAFANA_PLUGIN_GITS) :
              LET p == GRAFANA_PLUGIN_GITS[k]
              IN  /\ Cardinality(AtArg("test -e", p)) <= 1
                  /\ \A t \in AtArg("test -e", p) :
                        /\ log[t].res = 0 <=> p \in cache_root0
                        /\ t < Len(log) =>
                              /\ log[t + 1].arg = p
                              /\ log[t + 1].cmd =
                                    IF p \in cache_root0 THEN "git pull"
                                    ELSE "git clone"
                  /\ AtArg(IF p \in cache_root0 THEN "git clone" ELSE "git pull",
                           p) = {}
                  /\ \A m \in 1..Len(GRAFANA_PLUGIN_FILENAMES) :
                        \A i \in AtArg("test -e",
                                       MarkerPath(p, GRAFANA_PLUGIN_FILENAMES[m])) :
                            \E j \in OkAt("git clone") \cup OkAt("git pull") :
                                j < i /\ log[j].arg = p
                  /\ \A i \in PluginCmds(p) :
                        log[i].res # 0 /\ i \notin AtArg("test -e", p) =>
                            /\ i = Len(log)
                            /\ pc \in {"main_exit", "exited"} /\ rv = -1
                  /\ k > 1 /\ PluginCmds(p) # {} =>
                        /\ PluginDone(GRAFANA_PLUGIN_GITS[k - 1])
                        /\ AllBefore(PluginCmds(GRAFANA_PLUGIN_GITS[k - 1]),
                                     PluginCmds(p))
        /\ At("rm -fr iso_cached_dir/") \cup At(MakeCmd) # {} =>
              \A k \in 1..Len(GRAFANA_PLUGIN_GITS) :
                  PluginDone(GRAFANA_PLUGIN_GITS[k])

\* the first plugin was pulled and the second cloned, every marker file was
\* found, and the pipeline has returned 0
C24_Witness ==
    /\ DoBuildReturned(0)
    /\ OkAt("git pull") # {} /\ OkAt("git clone") # {}
    /\ GRAFANA_PLUGIN_GITS[1] \in cache_root0
    /\ GRAFANA_PLUGIN_GITS[2] \notin cache_root0

\* the checkout of the first plugin lacks a marker file: nothing was done for
\* the second plugin
C24_WitnessFailed ==
    /\ DoBuildReturned(-1)
    /\ \E i \in OkAt("git clone") : log[i].arg = GRAFANA_PLUGIN_GITS[1]
    /\ log[Len(log)].cmd = "test -e" /\ log[Len(log)].res # 0
    /\ PluginCmds(GRAFANA_PLUGIN_GITS[2]) = {}
(***************************************************************************)
(* More claims about download_dependent_rpms.                              *)
(***************************************************************************)
\* the command at position i of log failed: a checksum command gives no
\* checksum, any other command exits non-zero
CmdFailed(i) ==
    IF log[i].cmd \in {"sha256sum", "yumdb sha256"}
    THEN log[i].res = NoSum
    ELSE log[i].res # 0
\* the checksum commands of files found in the listing, and those of files
\* just downloaded
CachedChecksums == {i \in At("sha256sum") : log[i - 1].cmd = "yumdb sha256"}
DownloadChecksums == {i \in At("sha256sum") : log[i - 1].cmd = "yumdownloader"}
\* the command at position i is the last one and the function returned -1
FatalAt(i) == i = Len(log) /\ Returned(-1)

\* what C25 says but for the failed commands: at most one download per
\* required package, and a checksum after the download that is not the
\* recorded one is fatal
C25_OneDownloadPerPackage ==
    entry = "download_dependent_rpms" =>
        /\ \A p \in RequiredPkgs : Cardinality(AtArg("yumdownloader", p)) <= 1
        /\ At("sha256sum") = CachedChecksums \cup DownloadChecksums
        /\ \A i \in DownloadChecksums :
              log[i].res # YumdbSha256(RpmFullName(log[i - 1].arg)) => FatalAt(i)

Listings == AtArg("ls", "eis_rpm_dependent_dir")

\* C26: the listing of the dependency directory of the image is made by the
\* first eis_rpm_install call of an EsmonInstallServer and kept: after a
\* listing that succeeded no call lists again; a listing that fails leaves
\* eis_rpm_dependent_fnames None and the call returns -1 with no install
\* command.
C26_ListingIsLazyAndKept ==
    /\ [](entry = "dependency_install" =>
            /\ Cardinality(Listings) <= 1
            /\ \A l \in Listings :
                  /\ l - 1 \in FailedAt("rpm -q")
                  /\ \A q \in FailedAt("rpm -q") : l - 1 <= q
                  /\ log[l].res = 0 <=> eis_rpm_dependent_fnames # NoFnames
                  /\ log[l].res = 0 => eis_rpm_dependent_fnames = LsIso(iso_files)
                  /\ log[l].res # 0 => Installs = {}
            /\ Listings = {} => eis_rpm_dependent_fnames = NoFnames
            /\ \A i \in Installs : \E l \in Listings : l < i /\ log[l].res = 0
            /\ \A q \in FailedAt("rpm -q") :
                  (q < Len(log) /\ \A r \in FailedAt("rpm -q") : q <= r)
                      => q + 1 \in Listings)
    /\ [][(entry = "dependency_install" /\ pc = "eis_ls"
             /\ log'[Len(log')].res # 0)
            => (pc' = "ddi_installed" /\ rv' = -1)]_vars

\* two packages were installed from the image after one listing
C26_Witness ==
    /\ entry = "dependency_install"
    /\ pc = "done"
    /\ Cardinality(OkAt("rpm -ivh")) = 2
    /\ Cardinality(Listings) = 1

\* the listing has failed: dependency_install has returned with no install
C26_WitnessFailed ==
    /\ entry = "dependency_install"
    /\ pc = "done"
    /\ \E l \in Listings : log[l].res # 0
    /\ iso_files # {}
\* the names of list s that are in none of the lists before it
NotIn(s, before) == SelectSeq(s, LAMBDA x : x \notin before)
\* the positions of the rpm -q of download_dependent_rpms, and the number of
\* them up to position i
PkgQueries == At("rpm -q")
PkgQueriesUpTo(i) == Cardinality({q \in PkgQueries : q <= i})

\* C27: the list of required packages of download_dependent_rpms is the
\* client list, and for RHEL7 the client list followed by every server
\* package and then every install-time package that is not yet in the
\* list, each once; for RHEL6 and any other distro it is the client list.
\* The packages are queried in the order of that list.
C27_RequiredListByDistro ==
    (entry = "download_dependent_rpms" /\ OkAt("ls") # {}) =>
        /\ dependent_rpms =
              IF distro = DISTRO_RHEL7
              THEN ESMON_CLIENT_DEPENDENT_RPMS
                   \o NotIn(ESMON_SERVER_DEPENDENT_RPMS,
                            Range(ESMON_CLIENT_DEPENDENT_RPMS))
                   \o NotIn(ESMON_INSTALL_DEPENDENT_RPMS,
                            Range(ESMON_CLIENT_DEPENDENT_RPMS)
                            \cup Range(ESMON_SERVER_DEPENDENT_RPMS))
              ELSE ESMON_CLIENT_DEPENDENT_RPMS
        /\ Cardinality(Range(dependent_rpms)) = Len(dependent_rpms)
        /\ distro = DISTRO_RHEL7 => Range(dependent_rpms) = AllPkgs
        /\ Cardinality(PkgQueries) <= Len(dependent_rpms)
        /\ \A q \in PkgQueries : log[q].arg = dependent_rpms[PkgQueriesUpTo(q)]
        /\ Returned(0) => Cardinality(PkgQueries) = Len(dependent_rpms)

\* a call for RHEL7 has returned 0 after the query of every package of the
\* three lists, each once
C27_Witness ==
    /\ entry = "download_dependent_rpms"
    /\ distro = DISTRO_RHEL7
    /\ Returned(0)
    /\ {log[q].arg : q \in PkgQueries} = AllPkgs
    /\ Cardinality(PkgQueries) = Cardinality(AllPkgs)
    /\ Cardinality(AllPkgs) >
           Cardinality(Range(ESMON_CLIENT_DEPENDENT_RPMS))

\* a call for a distro that is not RHEL7 has returned 0 after the query of
\* the client packages
C27_WitnessClientOnly ==
    /\ entry = "download_dependent_rpms"
    /\ distro = DISTRO_OTHER
    /\ Returned(0)
    /\ Cardinality(PkgQueries) = Len(ESMON_CLIENT_DEPENDENT_RPMS)
\* the positions of the fetch of the dependency directory of the build host
\* into the copying directory
HbFetchDep == AtArg("get_file", "host_dependent_rpm_dir")
\* the local dependency cache directory is changed or removed in this step
LocalDepReplaced ==
    local_dep_kind = "dir" /\ (local_dep' # local_dep \/ local_dep_kind' # "dir")

\* C28: host_build replaces the local dependency cache directory only after
\* download_dependent_rpms returned 0 and the directory of the build host
\* was fetched into the copying directory: a directory that was there is
\* left as it was when download_dependent_rpms or the fetch fails.
C28_LocalCacheKeptUnlessFetched ==
    [][entry = "host_build" =>
          /\ LocalDepReplaced =>
                /\ pc = "hb_mv"
                /\ OkAt("get_file") \cap HbFetchDep # {}
                /\ copying_dep = depdir
          /\ (pc # "hb_mkdir_copying" /\ pc' = "hb_mkdir_copying") =>
                (pc = "hb_downloaded" /\ rv = 0)
          /\ (pc = "hb_downloaded" /\ rv # 0) =>
                (pc' = "done" /\ rv' = rv /\ UNCHANGED <<local_dep, local_dep_kind>>)
          /\ (pc = "hb_get_file" /\ log'[Len(log')].res # 0) =>
                (pc' = "done" /\ rv' = -1 /\ UNCHANGED <<local_dep, local_dep_kind>>)
          /\ (HbFetchDep = {} \/ FailedAt("get_file") \cap HbFetchDep # {}) =>
                ~LocalDepReplaced]_vars

\* the fetch has failed and host_build has returned -1: the cache directory
\* of an older run is there
C28_Witness ==
    /\ entry = "host_build"
    /\ Returned(-1)
    /\ FailedAt("get_file") \cap HbFetchDep # {}
    /\ local_dep_kind = "dir"
    /\ local_dep = StaleDir(distro)
    /\ depdir # local_dep

\* download_dependent_rpms has failed at a download and host_build has
\* returned -1: the cache directory of an older run is there
C28_WitnessDownload ==
    /\ entry = "host_build"
    /\ Returned(-1)
    /\ FailedAt("yumdownloader") # {}
    /\ local_dep_kind = "dir"
    /\ local_dep = StaleDir(distro)

\* host_build has replaced the cache directory of an older run
C28_WitnessReplaced ==
    /\ entry = "host_build"
    /\ Returned(0)
    /\ At("yumdownloader") # {}
    /\ OkAt("send_file") \cap HbSendCache # {}
    /\ local_dep = depdir
\* C29: when the mkdir-and-mount command of dependency_install fails, the
\* function returns -1 at once: no package is queried or installed, and
\* neither umount nor rmdir is issued.
C29_MountFailureReturnsAtOnce ==
    (entry = "dependency_install" /\ FailedAt(MountCmd) # {}) =>
        /\ Cardinality(At(MountCmd)) = 1
        /\ log[Len(log)].cmd = MountCmd
        /\ Returned(-1)
        /\ At("rpm -q") = {} /\ At("rpm -ivh") = {} /\ Listings = {}
        /\ At("umount") = {} /\ At("rmdir") = {}
        /\ ~mounted

\* the mount of the image found in the working directory has failed
C29_Witness ==
    /\ entry = "dependency_install"
    /\ pc = "done"
    /\ iso_path = "cwd.iso"
    /\ FailedAt(MountCmd) # {}
    /\ installed # Range(ESMON_INSTALL_DEPENDENT_RPMS)

\* the configs C30 names: two ssh hosts with one host_id, an ssh host without
\* hostname, a centos6_host without host_id or with one no ssh host has
SharedHostId(c) ==
    \E i, j \in DOMAIN c.ssh_hosts :
        /\ i < j
        /\ c.ssh_hosts[i].host_id = c.ssh_hosts[j].host_id
        /\ c.ssh_hosts[i].host_id \notin {"None", "Missing"}
LacksHostname(c) == \E i \in DOMAIN c.ssh_hosts : c.ssh_hosts[i].hostname = "None"
Centos6Unknown(c) ==
    \/ c.centos6_host = "None"
    \/ /\ c.centos6_host # "NoKey"
       /\ \A i \in DOMAIN c.ssh_hosts : c.ssh_hosts[i].host_id # c.centos6_host
ConfigInvalid(c) == SharedHostId(c) \/ LacksHostname(c) \/ Centos6Unknown(c)
\* every ssh host has the key host_id
HostIdKeys(c) == \A i \in DOMAIN c.ssh_hosts : c.ssh_hosts[i].host_id # "Missing"

\* C30: when two ssh_hosts share a host_id, an ssh host lacks a hostname, or
\* centos6_host has no host_id or names one that is not in ssh_hosts,
\* esmon_do_build returns -1 to its caller and no command has been run on
\* any host.
C30_InvalidConfigReturnsMinusOne ==
    [][(pc = "edb_parse" /\ ConfigInvalid(config)) =>
          /\ pc' = "main_exit" /\ rv' = -1
          /\ log = <<>> /\ log' = <<>>]_vars
\* C30 where every ssh host has the key host_id; without the key the lookup
\* host_config["host_id"] raises and the process ends with a traceback
C30_WithHostIdKeys ==
    [][(pc = "edb_parse" /\ ConfigInvalid(config) /\ HostIdKeys(config)) =>
          /\ pc' = "main_exit" /\ rv' = -1
          /\ log = <<>> /\ log' = <<>>]_vars
\* no command is run on any host for such a config, raised or returned
C30_NoCommandOnInvalidConfig ==
    (entry = "main" /\ ConfigInvalid(config)) => log = <<>>
\* an ssh host without hostname behind one without the key host_id: raised
C30_Raised ==
    /\ entry = "main" /\ pc = "exited" /\ main_ret = <<>> /\ status = <<1>>
    /\ config_file = "yaml"
    /\ LacksHostname(config) /\ ~HostIdKeys(config)
\* each of the three cases returned -1
C30_ReturnedShared ==
    /\ entry = "main" /\ pc = "exited" /\ main_ret = <<-1>> /\ log = <<>>
    /\ SharedHostId(config) /\ ~LacksHostname(config) /\ ~Centos6Unknown(config)
C30_ReturnedCentos6 ==
    /\ entry = "main" /\ pc = "exited" /\ main_ret = <<-1>> /\ log = <<>>
    /\ Centos6Unknown(config) /\ ~LacksHostname(config) /\ ~SharedHostId(config)

\* dependency_install was called by main and has returned a failure
ProvisioningFailed == pc = "im_installed" /\ rv # 0

\* C31: main of esmon_install never calls esmon_install_nodeps.main after a
\* dependency_install that returned non-zero: its next step leaves main
\* without the installer having been called, and a run that returned this
\* way never delegated.
C31_NoInstallerAfterFailedProvisioning ==
    /\ [][ProvisioningFailed =>
            /\ pc' = "returned"
            /\ ~delegated'
            /\ log' = log]_vars
    /\ [](pc = "returned" => ~delegated /\ rv # 0)
    /\ [](delegated => (At(MountCmd) # {} => rv = 0))
\* provisioning was attempted, failed, and main has returned
C31_Witness ==
    /\ entry = "install_main" /\ pc = "returned" /\ rv # 0 /\ ~delegated
    /\ At(MountCmd) # {}
\* provisioning was attempted and succeeded: the installer is called
C31_WitnessDelegated ==
    /\ entry = "install_main" /\ delegated /\ At("rpm -ivh") # {}

\* dependency_do_install, called from main, is about to query the package
DdiQueries(rpm) ==
    /\ entry = "install_main"
    /\ pc = "ddi_for"
    /\ ddi_i <= Len(ESMON_INSTALL_DEPENDENT_RPMS)
    /\ ESMON_INSTALL_DEPENDENT_RPMS[ddi_i] = rpm
\* the entries of missing_dependencies that the imports of main appended
ImportsMissing == Cardinality(Range(PYTHON_LIBS) \ importable)
\* main counted the package as missing on the result of its query
CountedMissing(rpm) ==
    \E i \in (ImportsMissing + 1)..Len(missing_dependencies) :
        missing_dependencies[i] = rpm

\* C32: main and dependency_do_install read the package query alike: a
\* package that main counted as missing is one that dependency_do_install,
\* when it comes to it, goes on to install (and so one that it skips as
\* installed was not counted as missing by main).
C32_QueryReadConsistently ==
    [][\A rpm \in Range(ESMON_INSTALL_DEPENDENT_RPMS) :
          (DdiQueries(rpm) /\ CountedMissing(rpm)) =>
              pc' \in {"eis_ls", "eis_rpm_ivh"}]_vars
\* what does hold: dependency_do_install skips exactly the packages that main
\* counted as missing, and installs those that main did not count
C32_QueryReadOppositely ==
    [][\A rpm \in Range(ESMON_INSTALL_DEPENDENT_RPMS) :
          DdiQueries(rpm) =>
              (CountedMissing(rpm) <=> pc' = "ddi_for")]_vars
\* a package counted as missing by main was skipped by dependency_do_install
C32_SkippedThoughCounted ==
    /\ entry = "install_main"
    /\ pc = "ddi_for" /\ ddi_i = 2
    /\ CountedMissing(ESMON_INSTALL_DEPENDENT_RPMS[1])
    /\ At("rpm -ivh") = {} /\ Listings = {}

\* the commands that remove the workspace of the CentOS6 host
WorkspaceRemovals ==
    {i \in 1..Len(log) : log[i].cmd = "rm -fr" /\ log[i].arg = "centos6_workspace"}
\* esmon_do_build has returned to main, or the process has ended
BuildOver == pc \in {"main_exit", "exited"}

\* C33: with a centos6_host configured, the removal of its workspace is
\* issued once at most, on that host, as the last command of esmon_do_build
\* and right after an image assembly command that succeeded; a build that
\* failed before that point sent no removal; an assembly that succeeded is
\* followed by the removal; and once the removal was issued esmon_do_build
\* returns 0 if it succeeded and -1 if it failed.
C33_WorkspaceRemovedLast ==
    entry = "main" =>
        /\ Cardinality(WorkspaceRemovals) <= 1
        /\ \A i \in WorkspaceRemovals :
              /\ i = Len(log)
              /\ centos6_host # "None"
              /\ log[i].host = centos6_host
              /\ i > 1
              /\ log[i - 1].cmd = MakeCmd /\ log[i - 1].res = 0
              /\ BuildOver
              /\ rv = (IF log[i].res = 0 THEN 0 ELSE -1)
              /\ pc = "exited" => main_ret = <<rv>>
        /\ (BuildOver /\ At(MakeCmd) \ FailedAt(MakeCmd) = {}) =>
              WorkspaceRemovals = {}
        /\ (centos6_host # "None" /\ BuildOver /\ At(MakeCmd) # {}
              /\ FailedAt(MakeCmd) = {}) => WorkspaceRemovals # {}
\* the image was assembled and the removal failed: esmon_do_build gave -1
C33_Witness ==
    /\ entry = "main" /\ pc = "exited" /\ main_ret = <<-1>>
    /\ WorkspaceRemovals # {}
    /\ log[Len(log)].res # 0
    /\ FailedAt(MakeCmd) = {} /\ At(MakeCmd) # {}
\* the removal succeeded
C33_WitnessRemoved ==
    /\ entry = "main" /\ pc = "exited" /\ main_ret = <<0>>
    /\ WorkspaceRemovals # {}
\* a build with a centos6_host that failed at the assembly: no removal
C33_WitnessEarlierFailure ==
    /\ entry = "main" /\ pc = "exited" /\ main_ret = <<-1>>
    /\ centos6_host # "None"
    /\ FailedAt(MakeCmd) # {}
    /\ WorkspaceRemovals = {}
=============================================================================
